---- MODULE Spec2Model ----
(***************************************************************************)
(* Model of the Bitwarden provider of secretspec                           *)
(* (secretspec/src/provider/bitwarden.rs): the two services behind one     *)
(* Provider (Password Manager through the `bw` CLI, Secrets Manager        *)
(* through the `bws` CLI), field resolution on vault items, and the        *)
(* create / update flows of set.                                           *)
(*                                                                         *)
(* Strings are TLA+ strings; Option<T> is a sequence of length 0 or 1;     *)
(* Result<T> is a record [ok, val, err].                                   *)
(***************************************************************************)
EXTENDS Integers, Sequences, FiniteSets, TLC

VARIABLES
    config,     \* BitwardenConfig held by the provider (immutable after new)
    env,        \* process environment variables read at call time
    session,    \* what `bw status` answers (state of the bw CLI session)
    vault,      \* Password Manager vault: sequence of items, in listing order
    secrets,    \* Secrets Manager store: sequence of secrets, in listing order
    nextId,     \* next identifier the backends hand out
    hist,       \* the provider calls made so far, oldest first
    rItem,      \* field resolution: the item under resolution
    rHint,      \* field resolution: the hint (requested key)
    rResult,    \* field resolution: results of the evaluations made so far
    rpc,        \* field resolution: "idle" or "resolve"
    writers,    \* concurrent set calls: each call's position and local values
    writeLog,   \* concurrent set calls: the calls whose create or edit
                \* process has completed, in order of completion
    readBack,   \* concurrent set calls: result of the get made after them
    url,        \* configuration parsing: the Url handed to try_from
    parseResult,\* configuration parsing: the Result of try_from, once made
    proc,       \* CLI transport: a finished process and the function reading it
    procResult, \* CLI transport: the Result made of the process, once made
    providerSpec, \* registry: the provider string handed to the registry ("": none)
    resolved    \* registry: the Result of the lookup, once made

vars == <<config, env, session, vault, secrets, nextId, hist,
          rItem, rHint, rResult, rpc, writers, writeLog, readBack, url, parseResult,
          proc, procResult, providerSpec, resolved>>

callVars == <<config, env, session, vault, secrets, nextId, hist>>
resolveVars == <<rItem, rHint, rResult, rpc>>
raceVars == <<writers, writeLog, readBack>>
probeVars == <<url, parseResult, proc, procResult, providerSpec, resolved>>

-----------------------------------------------------------------------------
(* Option and Result *)

None == <<>>
Some(x) == <<x>>
IsSome(o) == o # <<>>
Unwrap(o) == o[1]
OrElse(a, b) == IF IsSome(a) THEN a ELSE b

(* With(e, LAMBDA x : body) is body with x bound to the value of e *)
With(v, Body(_)) == Body(v)

(* Err is SecretSpecError::ProviderOperationFailed(m); JsonErr is the error *)
(* serde_json::from_str converts into with `?`                             *)
Ok(v) == [ok |-> TRUE, val |-> v, kind |-> "", err |-> ""]
Err(m) == [ok |-> FALSE, val |-> <<>>, kind |-> "ProviderOperationFailed", err |-> m]
JsonErr == [ok |-> FALSE, val |-> <<>>, kind |-> "Json", err |-> "JSON error"]

-----------------------------------------------------------------------------
(* str::to_lowercase, str::contains, str::eq_ignore_ascii_case over ASCII *)

UpperChars == "ABCDEFGHIJKLMNOPQRSTUVWXYZ"
LowerChars == "abcdefghijklmnopqrstuvwxyz"

(* the ASCII upper-case letters, each mapped to its lower-case letter *)
LowerTable ==
    [c \in {SubSeq(UpperChars, i, i) : i \in 1..Len(UpperChars)} |->
        LET i == CHOOSE j \in 1..Len(UpperChars) : SubSeq(UpperChars, j, j) = c
        IN  SubSeq(LowerChars, i, i)]

UpperSet == DOMAIN LowerTable

LowerChar(c) == IF c \in UpperSet THEN LowerTable[c] ELSE c

RECURSIVE ToLowerChars(_)
ToLowerChars(s) ==
    IF Len(s) = 0 THEN ""
    ELSE LowerChar(SubSeq(s, 1, 1)) \o ToLowerChars(SubSeq(s, 2, Len(s)))

(* ToLowerChars tabulated once for the names the domains below draw from;   *)
(* any other string is lowered character by character                       *)
TabulatedStrings ==
    {"API_KEY", "USERNAME", "DB_PASSWORD", "CARD_CODE", "PUBLIC_EMAIL", "totp_phone",
     "LEGACY_TOKEN", "item", "username", "notes", "api_key", "password", "number",
     "email", "public_key", "missing", "value", "my_api_key_v2", "Api_Key",
     "Card", "NOTE", "ssh_key", "bogus"}

LowerOf == [s \in TabulatedStrings |-> ToLowerChars(s)]

ToLower(s) == IF s \in TabulatedStrings THEN LowerOf[s] ELSE ToLowerChars(s)

Contains(s, t) ==
    \E i \in 0..(Len(s) - Len(t)) : SubSeq(s, i + 1, i + Len(t)) = t

ContainsAny(s, pats) == \E t \in pats : Contains(s, t)

EqIgnoreAsciiCase(a, b) == ToLower(a) = ToLower(b)

(* the least element of a set of numbers, 0 for the empty set *)
Least(S) == IF S = {} THEN 0 ELSE CHOOSE i \in S : \A j \in S : i <= j

(* String::replace for a pattern that occurs at most once in s *)
Replace(s, pat, by) ==
    With(Least({j \in 1..(Len(s) - Len(pat) + 1) : SubSeq(s, j, j + Len(pat) - 1) = pat}),
         LAMBDA at :
        IF at = 0 THEN s
        ELSE SubSeq(s, 1, at - 1) \o by \o SubSeq(s, at + Len(pat), Len(s)))

-----------------------------------------------------------------------------
(* Item types and field types *)

ItemTypes == {"Login", "SecureNote", "Card", "Identity", "SshKey"}

item_type_to_u8(t) ==
    CASE t = "Login" -> 1
      [] t = "SecureNote" -> 2
      [] t = "Card" -> 3
      [] t = "Identity" -> 4
      [] t = "SshKey" -> 5

item_type_from_str(s) ==
    With(ToLower(s), LAMBDA l :
        CASE l = "login" -> Some("Login")
          [] l \in {"securenote", "note", "secure_note"} -> Some("SecureNote")
          [] l = "card" -> Some("Card")
          [] l = "identity" -> Some("Identity")
          [] l \in {"sshkey", "ssh_key", "ssh"} -> Some("SshKey")
          [] OTHER -> None)

default_field_for_hint(t, hint) ==
    With(ToLower(hint), LAMBDA hint_lower :
        CASE t = "Login" ->
                IF ContainsAny(hint_lower, {"user", "login"}) THEN "username"
                ELSE IF ContainsAny(hint_lower, {"totp", "2fa", "mfa"}) THEN "totp"
                ELSE "password"
          [] t = "SecureNote" -> "value"
          [] t = "Card" ->
                IF ContainsAny(hint_lower, {"code", "cvv", "cvc"}) THEN "code"
                ELSE IF ContainsAny(hint_lower, {"name", "cardholder"}) THEN "cardholder"
                ELSE IF ContainsAny(hint_lower, {"number", "card"}) THEN "number"
                ELSE hint
          [] t = "Identity" ->
                IF ContainsAny(hint_lower, {"phone", "tel"}) THEN "phone"
                ELSE IF ContainsAny(hint_lower, {"user", "login"}) THEN "username"
                ELSE IF ContainsAny(hint_lower, {"email", "mail"}) THEN "email"
                ELSE hint
          [] t = "SshKey" ->
                IF ContainsAny(hint_lower, {"public", "pub"}) THEN "public_key"
                ELSE IF ContainsAny(hint_lower, {"passphrase", "password"})
                     THEN "passphrase"
                ELSE IF ContainsAny(hint_lower, {"private", "key"}) THEN "private_key"
                ELSE "private_key")

FieldText == 0
FieldHidden == 1
FieldBoolean == 2

for_field_name(field_name) ==
    IF ContainsAny(ToLower(field_name),
                   {"password", "secret", "token", "key", "value", "code", "cvv", "cvc"})
    THEN FieldHidden
    ELSE FieldText

-----------------------------------------------------------------------------
(* Vault items.  Every typed payload is an Option; sub-fields are Options. *)

NoLogin == [username |-> None, password |-> None, totp |-> None]
NoCard == [number |-> None, code |-> None, cardholderName |-> None,
           brand |-> None, expMonth |-> None, expYear |-> None]
NoIdentity == [firstName |-> None, lastName |-> None, username |-> None,
               company |-> None, email |-> None, phone |-> None]
NoSshKey == [privateKey |-> None, publicKey |-> None, keyFingerprint |-> None]

(* a JSON document / BitwardenItem with every optional member absent *)
BlankItem ==
    [id |-> 0, type |-> "Login", name |-> "", notes |-> None,
     login |-> None, secureNote |-> None, card |-> None, identity |-> None,
     sshKey |-> None, fields |-> None,
     organizationId |-> None, collectionIds |-> None]

-----------------------------------------------------------------------------
(* Field resolution (get side) *)

(* position of the first element of a sequence satisfying Test, 0 if none *)
FirstIndex(seq, Test(_)) == Least({i \in 1..Len(seq) : Test(seq[i])})

(* a custom-field lookup that fails on a matching field without a value *)
extract_from_custom_fields_ValueRequired(item, field_name) ==
    IF IsSome(item.fields)
    THEN With(Unwrap(item.fields), LAMBDA fields :
         With(FirstIndex(fields, LAMBDA f :
                  IsSome(f.name) /\ EqIgnoreAsciiCase(Unwrap(f.name), field_name)),
              LAMBDA exact :
         With(FirstIndex(fields, LAMBDA f :
                  IsSome(f.name)
                  /\ Contains(ToLower(Unwrap(f.name)), ToLower(field_name))),
              LAMBDA partial :
             IF exact # 0
             THEN IF IsSome(fields[exact].value) THEN Ok(fields[exact].value)
                  ELSE Err("field has no value")
             ELSE IF partial # 0 THEN Ok(fields[partial].value)
             ELSE Ok(None))))
    ELSE Ok(None)

(* a custom-field lookup in one pass: the first field that matches either way *)
extract_from_custom_fields_SinglePass(item, field_name) ==
    IF IsSome(item.fields)
    THEN With(Unwrap(item.fields), LAMBDA fields :
         With(FirstIndex(fields, LAMBDA f :
                  IsSome(f.name)
                  /\ Contains(ToLower(Unwrap(f.name)), ToLower(field_name))),
              LAMBDA either :
             IF either # 0 THEN Ok(fields[either].value) ELSE Ok(None)))
    ELSE Ok(None)

extract_from_custom_fields(item, field_name) ==
    IF IsSome(item.fields)
    THEN With(Unwrap(item.fields), LAMBDA fields :
         With(FirstIndex(fields, LAMBDA f :
                  IsSome(f.name) /\ EqIgnoreAsciiCase(Unwrap(f.name), field_name)),
              LAMBDA exact :
         With(FirstIndex(fields, LAMBDA f :
                  IsSome(f.name)
                  /\ Contains(ToLower(Unwrap(f.name)), ToLower(field_name))),
              LAMBDA partial :
             IF exact # 0 THEN Ok(fields[exact].value)
             ELSE IF partial # 0 THEN Ok(fields[partial].value)
             ELSE Ok(None))))
    ELSE Ok(None)

extract_from_login_item(item, field_hint, requested_field) ==
    IF IsSome(item.login)
    THEN With(Unwrap(item.login), LAMBDA login :
         IF IsSome(requested_field)
         THEN With(ToLower(Unwrap(requested_field)), LAMBDA l :
                  CASE l = "password" -> Ok(login.password)
                    [] l = "username" -> Ok(login.username)
                    [] l = "totp" -> Ok(login.totp)
                    [] OTHER ->
                          extract_from_custom_fields(item, Unwrap(requested_field)))
         ELSE With(ToLower(field_hint), LAMBDA hint_lower :
                  IF ContainsAny(hint_lower, {"password", "pass", "secret", "token"})
                     /\ IsSome(login.password)
                  THEN Ok(login.password)
                  ELSE IF ContainsAny(hint_lower, {"user", "login"})
                          /\ IsSome(login.username)
                       THEN Ok(login.username)
                  ELSE IF ContainsAny(hint_lower, {"totp", "2fa", "mfa"})
                          /\ IsSome(login.totp)
                       THEN Ok(login.totp)
                  ELSE IF IsSome(login.password) THEN Ok(login.password)
                  ELSE IF IsSome(login.username) THEN Ok(login.username)
                  ELSE extract_from_custom_fields(item, field_hint)))
    ELSE extract_from_custom_fields(item, field_hint)

extract_from_secure_note_item(item, field_hint, requested_field) ==
    With(IF IsSome(requested_field)
         THEN extract_from_custom_fields(item, Unwrap(requested_field))
         ELSE Ok(None), LAMBDA byRequested :
    With(extract_from_custom_fields(item, "value"), LAMBDA byValue :
    With(extract_from_custom_fields(item, field_hint), LAMBDA byHint :
        IF ~byRequested.ok THEN byRequested
        ELSE IF IsSome(byRequested.val) THEN byRequested
        ELSE IF ~byValue.ok THEN byValue
        ELSE IF IsSome(byValue.val) THEN byValue
        ELSE IF ~byHint.ok THEN byHint
        ELSE IF IsSome(byHint.val) THEN byHint
        ELSE Ok(item.notes))))

extract_from_card_item(item, field_hint, requested_field) ==
    IF IsSome(item.card)
    THEN With(Unwrap(item.card), LAMBDA card :
         IF IsSome(requested_field)
         THEN With(ToLower(Unwrap(requested_field)), LAMBDA l :
                  CASE l = "number" -> Ok(card.number)
                    [] l \in {"code", "cvv", "cvc"} -> Ok(card.code)
                    [] l \in {"cardholder", "name"} -> Ok(card.cardholderName)
                    [] l = "brand" -> Ok(card.brand)
                    [] l \in {"expmonth", "exp_month"} -> Ok(card.expMonth)
                    [] l \in {"expyear", "exp_year"} -> Ok(card.expYear)
                    [] OTHER ->
                          extract_from_custom_fields(item, Unwrap(requested_field)))
         ELSE With(ToLower(field_hint), LAMBDA hint_lower :
                  IF ContainsAny(hint_lower, {"number", "card"}) /\ IsSome(card.number)
                  THEN Ok(card.number)
                  ELSE IF ContainsAny(hint_lower, {"code", "cvv", "cvc"})
                          /\ IsSome(card.code)
                       THEN Ok(card.code)
                  ELSE IF IsSome(card.number) THEN Ok(card.number)
                  ELSE extract_from_custom_fields(item, field_hint)))
    ELSE extract_from_custom_fields(item, field_hint)

extract_from_identity_item(item, field_hint, requested_field) ==
    IF IsSome(item.identity)
    THEN With(Unwrap(item.identity), LAMBDA identity :
         IF IsSome(requested_field)
         THEN With(ToLower(Unwrap(requested_field)), LAMBDA l :
                  CASE l = "email" -> Ok(identity.email)
                    [] l = "username" -> Ok(identity.username)
                    [] l = "phone" -> Ok(identity.phone)
                    [] l \in {"firstname", "first_name"} -> Ok(identity.firstName)
                    [] l \in {"lastname", "last_name"} -> Ok(identity.lastName)
                    [] l = "company" -> Ok(identity.company)
                    [] OTHER ->
                          extract_from_custom_fields(item, Unwrap(requested_field)))
         ELSE With(ToLower(field_hint), LAMBDA hint_lower :
                  IF ContainsAny(hint_lower, {"email", "mail"}) /\ IsSome(identity.email)
                  THEN Ok(identity.email)
                  ELSE IF ContainsAny(hint_lower, {"phone", "tel"})
                          /\ IsSome(identity.phone)
                       THEN Ok(identity.phone)
                  ELSE IF ContainsAny(hint_lower, {"user", "login"})
                          /\ IsSome(identity.username)
                       THEN Ok(identity.username)
                  ELSE IF IsSome(identity.email) THEN Ok(identity.email)
                  ELSE IF IsSome(identity.username) THEN Ok(identity.username)
                  ELSE extract_from_custom_fields(item, field_hint)))
    ELSE extract_from_custom_fields(item, field_hint)

extract_from_ssh_key_item(item, field_hint, requested_field) ==
    IF IsSome(item.sshKey)
    THEN With(Unwrap(item.sshKey), LAMBDA ssh_key :
         IF IsSome(requested_field)
         THEN With(ToLower(Unwrap(requested_field)), LAMBDA l :
                  CASE l \in {"private_key", "privatekey", "private"} ->
                          Ok(ssh_key.privateKey)
                    [] l \in {"public_key", "publickey", "public"} ->
                          Ok(ssh_key.publicKey)
                    [] l \in {"fingerprint", "key_fingerprint"} ->
                          Ok(ssh_key.keyFingerprint)
                    [] OTHER ->
                          extract_from_custom_fields(item, Unwrap(requested_field)))
         ELSE With(ToLower(field_hint), LAMBDA hint_lower :
                  IF ContainsAny(hint_lower, {"public", "pub"})
                     /\ IsSome(ssh_key.publicKey)
                  THEN Ok(ssh_key.publicKey)
                  ELSE IF ContainsAny(hint_lower, {"fingerprint", "finger"})
                          /\ IsSome(ssh_key.keyFingerprint)
                       THEN Ok(ssh_key.keyFingerprint)
                  ELSE IF IsSome(ssh_key.privateKey) THEN Ok(ssh_key.privateKey)
                  ELSE extract_from_custom_fields(item, field_hint)))
    ELSE extract_from_custom_fields(item, field_hint)

(* the requested field: BITWARDEN_DEFAULT_FIELD, else config.default_field *)
RequestedField(cfg, e) == OrElse(e.BITWARDEN_DEFAULT_FIELD, cfg.default_field)

(* extract_value_from_item after the requested field has been read *)
ExtractWithField(item, field_hint, requested_field) ==
    CASE item.type = "Login" ->
            extract_from_login_item(item, field_hint, requested_field)
      [] item.type = "SecureNote" ->
            extract_from_secure_note_item(item, field_hint, requested_field)
      [] item.type = "Card" ->
            extract_from_card_item(item, field_hint, requested_field)
      [] item.type = "Identity" ->
            extract_from_identity_item(item, field_hint, requested_field)
      [] item.type = "SshKey" ->
            extract_from_ssh_key_item(item, field_hint, requested_field)

extract_value_from_item(cfg, e, item, field_hint) ==
    ExtractWithField(item, field_hint, RequestedField(cfg, e))

-----------------------------------------------------------------------------
(* Configuration and environment *)

DefaultConfig ==
    [service |-> "PasswordManager",
     organization_id |-> None, collection_id |-> None, server |-> None,
     folder_prefix |-> None, project_id |-> None, access_token |-> None,
     default_item_type |-> Some("Login"), default_field |-> None]

NoEnv ==
    [BITWARDEN_DEFAULT_TYPE |-> None, BITWARDEN_DEFAULT_FIELD |-> None,
     BITWARDEN_ORGANIZATION |-> None, BITWARDEN_COLLECTION |-> None,
     BWS_ACCESS_TOKEN |-> None]

(* BITWARDEN_ORGANIZATION, else config.organization_id *)
OrgId(cfg, e) == OrElse(e.BITWARDEN_ORGANIZATION, cfg.organization_id)

(* BITWARDEN_COLLECTION, else config.collection_id, as a one-element list *)
CollectionIds(cfg, e) ==
    With(OrElse(e.BITWARDEN_COLLECTION, cfg.collection_id), LAMBDA c :
        IF IsSome(c) THEN Some(<<Unwrap(c)>>) ELSE None)

format_folder_name(cfg, project, profile) ==
    Replace(Replace(IF IsSome(cfg.folder_prefix) THEN Unwrap(cfg.folder_prefix)
                    ELSE "secretspec/{project}/{profile}",
                    "{project}", project),
            "{profile}", profile)

format_item_name(cfg, project, key, profile) ==
    format_folder_name(cfg, project, profile) \o "/" \o key

-----------------------------------------------------------------------------
(* External processes.  A finished process is                              *)
(*   [found, success, stdout, stderr]: found = the executable exists,      *)
(*   stdout = Some(document) when it is well-formed JSON, None otherwise.  *)

Exited(doc) == [found |-> TRUE, success |-> TRUE, stdout |-> Some(doc), stderr |-> ""]
Garbage == [found |-> TRUE, success |-> TRUE, stdout |-> None, stderr |-> ""]
Failed(msg) == [found |-> TRUE, success |-> FALSE, stdout |-> None, stderr |-> msg]
NotInstalled == [found |-> FALSE, success |-> FALSE, stdout |-> None, stderr |-> ""]

BwNotInstalledMsg ==
    "Bitwarden CLI (bw) is not installed.\n\nTo install it:\n  - npm: npm install -g @bitwarden/cli\n  - Homebrew: brew install bitwarden-cli\n  - Chocolatey: choco install bitwarden-cli\n  - Download: https://bitwarden.com/help/cli/\n\nAfter installation, run 'bw login' and 'bw unlock' to authenticate."
BwLoginMsg == "Bitwarden authentication required. Please run 'bw login' first."
BwLockedMsg ==
    "Bitwarden vault is locked. Please run 'bw unlock' and set the BW_SESSION environment variable."
BwAuthRequiredMsg ==
    "Bitwarden authentication required. Please run 'bw login' and 'bw unlock', then set the BW_SESSION environment variable."

(* the Result<String> of execute_bw_command for a finished process *)
execute_bw_command(out) ==
    IF ~out.found THEN Err(BwNotInstalledMsg)
    ELSE IF ~out.success
         THEN IF Contains(out.stderr, "You are not logged in") THEN Err(BwLoginMsg)
              ELSE IF Contains(out.stderr, "Vault is locked") THEN Err(BwLockedMsg)
              ELSE Err(out.stderr)
    ELSE Ok(out.stdout)

BwsNotInstalledMsg ==
    "Bitwarden Secrets Manager CLI (bws) is not installed.\n\nTo install it:\n  - Cargo: cargo install bws\n  - Script: curl -sSL https://bitwarden.com/secrets/install | sh\n  - Download: https://github.com/bitwarden/sdk-sm/releases\n\nAfter installation, set BWS_ACCESS_TOKEN environment variable with your access token."
BwsAuthMsg ==
    "Bitwarden Secrets Manager authentication required. Please set the BWS_ACCESS_TOKEN environment variable with your machine account access token."
BwsRateLimitMsg ==
    "Bitwarden Secrets Manager rate limit exceeded. Please wait ~20 seconds and try again. Consider using state files to reduce API calls."
BwsAccessDeniedMsg ==
    "Bitwarden Secrets Manager access denied. Please verify:\n1. Machine account has read/write access to the specified project\n2. Project ID is correct\n3. Organization permissions are properly configured\n\nResource not found errors often indicate permission issues rather than missing resources."

(* the BWS_ACCESS_TOKEN the bws process runs with: the configured token,  *)
(* else the one of the environment                                        *)
AccessToken(cfg, e) ==
    IF IsSome(cfg.access_token) THEN cfg.access_token ELSE e.BWS_ACCESS_TOKEN

(* the Result<String> of execute_bws_command for a finished process *)
execute_bws_command(out) ==
    IF ~out.found THEN Err(BwsNotInstalledMsg)
    ELSE IF ~out.success
         THEN IF ContainsAny(out.stderr, {"Access token is required", "Unauthorized"})
              THEN Err(BwsAuthMsg)
              ELSE IF Contains(out.stderr,
                               "Internal error: Failed to parse IdentityTokenResponse")
              THEN Err(BwsRateLimitMsg)
              ELSE IF ContainsAny(out.stderr, {"Resource not found", "Not found"})
              THEN Err(BwsAccessDeniedMsg)
              ELSE Err("Bitwarden Secrets Manager CLI error: " \o out.stderr)
    ELSE Ok(out.stdout)

(* serde_json::from_str on the stdout of a successful command *)
FromJson(stdout) == IF IsSome(stdout) THEN Ok(Unwrap(stdout)) ELSE JsonErr

(* an is_authenticated that accepts every status but "unauthenticated" *)
is_authenticated_LockedPasses(out) ==
    With(execute_bw_command(out), LAMBDA r :
        IF r.ok
        THEN With(FromJson(r.val), LAMBDA status :
                 IF ~status.ok THEN status
                 ELSE Ok(status.val.status # "unauthenticated"))
        ELSE IF r.kind = "ProviderOperationFailed"
                /\ (Contains(r.err, "You are not logged in")
                    \/ Contains(r.err, "Vault is locked"))
             THEN Ok(FALSE)
        ELSE r)

(* is_authenticated for the finished `bw status` process *)
is_authenticated(out) ==
    With(execute_bw_command(out), LAMBDA r :
        IF r.ok
        THEN With(FromJson(r.val), LAMBDA status :
                 IF ~status.ok THEN status
                 ELSE Ok(status.val.status = "unlocked"))
        ELSE IF r.kind = "ProviderOperationFailed"
                /\ (Contains(r.err, "You are not logged in")
                    \/ Contains(r.err, "Vault is locked"))
             THEN Ok(FALSE)
        ELSE r)

-----------------------------------------------------------------------------
(* The `bw` CLI and the vault behind it (external to the provider).         *)
(* A fault [cmd, out] makes the named command of the current call finish    *)
(* as `out` without touching the backend.                                   *)

NoFault == [cmd |-> "", out |-> Garbage]

Run(fault, cmd, normal) == IF fault.cmd = cmd THEN fault.out ELSE normal

SessionStates ==
    {"unlocked", "locked", "unauthenticated", "not_logged_in_error",
     "locked_error", "failing", "garbage", "missing"}

(* `bw status` *)
BwStatus(s) ==
    CASE s \in {"unlocked", "locked", "unauthenticated"} -> Exited([status |-> s])
      [] s = "not_logged_in_error" -> Failed("You are not logged in.")
      [] s = "locked_error" -> Failed("Vault is locked.")
      [] s = "failing" -> Failed("mac failed.")
      [] s = "garbage" -> Garbage
      [] s = "missing" -> NotInstalled

(* --organizationid <org> *)
OrgFilter(items, org) ==
    IF IsSome(org)
    THEN SelectSeq(items, LAMBDA i : i.organizationId = org)
    ELSE items

(* `bw list items [--organizationid org]` *)
BwListItems(v, org) == OrgFilter(v, org)

(* `bw list items --search key`: items whose name contains key, any case *)
BwSearchItems(v, key, org) ==
    SelectSeq(OrgFilter(v, org), LAMBDA i : Contains(ToLower(i.name), ToLower(key)))

(* `bw get item <id>` *)
BwGetItem(v, id) ==
    With(FirstIndex(v, LAMBDA i : i.id = id), LAMBDA k :
        IF k = 0 THEN Failed("Not found.") ELSE Exited(v[k]))

(* the stdin of `bw create item` / `bw edit item`: base64 of the JSON text *)
EncodeJson(doc) == [base64 |-> doc]
DecodeJson(payload) == payload.base64

(* vault after `bw create item` with the encoded document on stdin *)
BwCreateItem(v, payload, id) ==
    Append(v, [DecodeJson(payload) EXCEPT !.id = id])

(* vault after `bw edit item <id>` with the encoded document on stdin *)
BwEditItem(v, id, payload) ==
    [k \in 1..Len(v) |->
        IF v[k].id = id THEN [DecodeJson(payload) EXCEPT !.id = id] ELSE v[k]]

-----------------------------------------------------------------------------
(* Password Manager: get *)

get_from_password_manager(cfg, e, sess, v, fault, project, key, profile) ==
    With(is_authenticated(Run(fault, "bw status", BwStatus(sess))), LAMBDA auth :
    With(execute_bw_command(
             Run(fault, "bw list items", Exited(BwSearchItems(v, key, OrgId(cfg, e))))),
         LAMBDA listed :
    With(FromJson(listed.val), LAMBDA items :
        IF ~auth.ok THEN [result |-> auth, cmds |-> <<"bw status">>]
        ELSE IF ~auth.val
             THEN [result |-> Err(BwAuthRequiredMsg), cmds |-> <<"bw status">>]
        ELSE IF ~listed.ok
             THEN [result |-> listed, cmds |-> <<"bw status", "bw list items">>]
        ELSE IF ~items.ok
             THEN [result |-> items, cmds |-> <<"bw status", "bw list items">>]
        ELSE IF Len(items.val) > 0
             THEN [result |-> extract_value_from_item(cfg, e, items.val[1], key),
                   cmds |-> <<"bw status", "bw list items">>]
        ELSE [result |-> Ok(None), cmds |-> <<"bw status", "bw list items">>])))

-----------------------------------------------------------------------------
(* Password Manager: update in place *)

JsonField(field, value) ==
    [name |-> Some(field), value |-> Some(value), type |-> for_field_name(field)]

(* an upsert that never looks for an existing field *)
update_custom_field_in_json_AlwaysAppends(item_json, field, value) ==
    With(IF IsSome(item_json.fields) THEN Unwrap(item_json.fields) ELSE <<>>,
         LAMBDA fields :
        Ok([item_json EXCEPT
               !.fields = Some(Append(fields, JsonField(field, value)))]))

update_custom_field_in_json(item_json, field, value) ==
    With(IF IsSome(item_json.fields) THEN Unwrap(item_json.fields) ELSE <<>>,
         LAMBDA fields :
    With(FirstIndex(fields, LAMBDA f : f.name = Some(field)), LAMBDA k :
        IF k # 0
        THEN Ok([item_json EXCEPT
                    !.fields = Some([fields EXCEPT ![k].value = Some(value)])])
        ELSE Ok([item_json EXCEPT
                    !.fields = Some(Append(fields, JsonField(field, value)))])))

(* item_json["login"]: indexing a null member makes it an empty object *)
Payload(member, blank) == IF IsSome(member) THEN Unwrap(member) ELSE blank

(* a Login update that builds the login object anew around the one value *)
update_login_item_json_RebuildsLogin(item_json, field, value) ==
    With(ToLower(field), LAMBDA l :
        CASE l = "password" ->
                Ok([item_json EXCEPT !.login = Some([NoLogin EXCEPT !.password = Some(value)])])
          [] l = "username" ->
                Ok([item_json EXCEPT !.login = Some([NoLogin EXCEPT !.username = Some(value)])])
          [] l = "totp" ->
                Ok([item_json EXCEPT !.login = Some([NoLogin EXCEPT !.totp = Some(value)])])
          [] OTHER -> update_custom_field_in_json(item_json, field, value))

update_login_item_json(item_json, field, value) ==
    With(ToLower(field), LAMBDA l :
    With(Payload(item_json.login, NoLogin), LAMBDA login :
        CASE l = "password" ->
                Ok([item_json EXCEPT !.login = Some([login EXCEPT !.password = Some(value)])])
          [] l = "username" ->
                Ok([item_json EXCEPT !.login = Some([login EXCEPT !.username = Some(value)])])
          [] l = "totp" ->
                Ok([item_json EXCEPT !.login = Some([login EXCEPT !.totp = Some(value)])])
          [] OTHER -> update_custom_field_in_json(item_json, field, value)))

update_secure_note_item_json(item_json, field, value) ==
    IF field = "notes"
    THEN Ok([item_json EXCEPT !.notes = Some(value)])
    ELSE update_custom_field_in_json(item_json, field, value)

update_card_item_json(item_json, field, value) ==
    With(ToLower(field), LAMBDA l :
    With(Payload(item_json.card, NoCard), LAMBDA card :
        CASE l = "number" ->
                Ok([item_json EXCEPT !.card = Some([card EXCEPT !.number = Some(value)])])
          [] l \in {"code", "cvv", "cvc"} ->
                Ok([item_json EXCEPT !.card = Some([card EXCEPT !.code = Some(value)])])
          [] l \in {"cardholder", "name"} ->
                Ok([item_json EXCEPT
                        !.card = Some([card EXCEPT !.cardholderName = Some(value)])])
          [] l = "brand" ->
                Ok([item_json EXCEPT !.card = Some([card EXCEPT !.brand = Some(value)])])
          [] l \in {"expmonth", "exp_month"} ->
                Ok([item_json EXCEPT !.card = Some([card EXCEPT !.expMonth = Some(value)])])
          [] l \in {"expyear", "exp_year"} ->
                Ok([item_json EXCEPT !.card = Some([card EXCEPT !.expYear = Some(value)])])
          [] OTHER -> update_custom_field_in_json(item_json, field, value)))

update_identity_item_json(item_json, field, value) ==
    With(ToLower(field), LAMBDA l :
    With(Payload(item_json.identity, NoIdentity), LAMBDA identity :
        CASE l = "email" ->
                Ok([item_json EXCEPT
                        !.identity = Some([identity EXCEPT !.email = Some(value)])])
          [] l = "username" ->
                Ok([item_json EXCEPT
                        !.identity = Some([identity EXCEPT !.username = Some(value)])])
          [] l = "phone" ->
                Ok([item_json EXCEPT
                        !.identity = Some([identity EXCEPT !.phone = Some(value)])])
          [] l \in {"firstname", "first_name"} ->
                Ok([item_json EXCEPT
                        !.identity = Some([identity EXCEPT !.firstName = Some(value)])])
          [] l \in {"lastname", "last_name"} ->
                Ok([item_json EXCEPT
                        !.identity = Some([identity EXCEPT !.lastName = Some(value)])])
          [] l = "company" ->
                Ok([item_json EXCEPT
                        !.identity = Some([identity EXCEPT !.company = Some(value)])])
          [] OTHER -> update_custom_field_in_json(item_json, field, value)))

update_ssh_key_item_json(item_json, field, value) ==
    With(ToLower(field), LAMBDA l :
    With(Payload(item_json.sshKey, NoSshKey), LAMBDA ssh_key :
        CASE l \in {"private_key", "privatekey", "private"} ->
                Ok([item_json EXCEPT
                        !.sshKey = Some([ssh_key EXCEPT !.privateKey = Some(value)])])
          [] l \in {"public_key", "publickey", "public"} ->
                Ok([item_json EXCEPT
                        !.sshKey = Some([ssh_key EXCEPT !.publicKey = Some(value)])])
          [] l \in {"fingerprint", "key_fingerprint"} ->
                Ok([item_json EXCEPT
                        !.sshKey = Some([ssh_key EXCEPT !.keyFingerprint = Some(value)])])
          [] OTHER -> update_custom_field_in_json(item_json, field, value)))

(* the field set writes to: requested field, else inferred from the key *)
TargetField(cfg, e, item_type, key) ==
    With(RequestedField(cfg, e), LAMBDA requested :
        IF IsSome(requested) THEN Unwrap(requested)
        ELSE default_field_for_hint(item_type, key))

BwNotInstalledShortMsg ==
    "Bitwarden CLI (bw) is not installed.\n\nTo install it:\n  - npm: npm install -g @bitwarden/cli\n  - Homebrew: brew install bitwarden-cli\n  - Chocolatey: choco install bitwarden-cli\n  - Download: https://bitwarden.com/help/cli/"

(* the Result<()> of a `bw create item` / `bw edit item` process fed on stdin *)
SpawnWithStdin(out) ==
    IF ~out.found THEN Err(BwNotInstalledShortMsg)
    ELSE IF ~out.success THEN Err(out.stderr)
    ELSE Ok(None)

(* get_item_as_template: `bw get item <id>` parsed as JSON *)
get_item_as_template(v, fault, item_id) ==
    With(execute_bw_command(Run(fault, "bw get item", BwGetItem(v, item_id))), LAMBDA r :
        IF ~r.ok THEN r ELSE FromJson(r.val))

(* update_item_with_json: [result, vault] *)
update_item_with_json(v, fault, item_id, item_json) ==
    With(SpawnWithStdin(Run(fault, "bw edit item", Exited(None))), LAMBDA r :
        [result |-> r,
         vault |-> IF r.ok THEN BwEditItem(v, item_id, EncodeJson(item_json)) ELSE v])

(* the update of the fetched document by the item's type *)
UpdatedItemJson(item_type, item_json, target_field, value) ==
    CASE item_type = "Login" -> update_login_item_json(item_json, target_field, value)
      [] item_type = "SecureNote" ->
             update_secure_note_item_json(item_json, target_field, value)
      [] item_type = "Card" -> update_card_item_json(item_json, target_field, value)
      [] item_type = "Identity" ->
             update_identity_item_json(item_json, target_field, value)
      [] item_type = "SshKey" ->
             update_ssh_key_item_json(item_json, target_field, value)

(* an update that reads the item back after a successful edit *)
update_existing_item_ReadBack(cfg, e, v, fault, item, key, value) ==
    With(TargetField(cfg, e, item.type, key), LAMBDA target_field :
    With(get_item_as_template(v, fault, item.id), LAMBDA fetched :
    With(UpdatedItemJson(item.type, fetched.val, target_field, value),
         LAMBDA updated :
    With(update_item_with_json(v, fault, item.id, updated.val), LAMBDA edited :
        IF ~fetched.ok
        THEN [result |-> fetched, vault |-> v, cmds |-> <<"bw get item">>]
        ELSE IF ~updated.ok
        THEN [result |-> updated, vault |-> v, cmds |-> <<"bw get item">>]
        ELSE [result |-> edited.result, vault |-> edited.vault,
              cmds |-> IF edited.result.ok
                       THEN <<"bw get item", "bw edit item", "bw get item">>
                       ELSE <<"bw get item", "bw edit item">>]))))

(* update_existing_item: [result, vault, cmds]; cmds are the commands it spawns *)
update_existing_item(cfg, e, v, fault, item, key, value) ==
    With(TargetField(cfg, e, item.type, key), LAMBDA target_field :
    With(get_item_as_template(v, fault, item.id), LAMBDA fetched :
    With(UpdatedItemJson(item.type, fetched.val, target_field, value),
         LAMBDA updated :
    With(update_item_with_json(v, fault, item.id, updated.val), LAMBDA edited :
        IF ~fetched.ok
        THEN [result |-> fetched, vault |-> v, cmds |-> <<"bw get item">>]
        ELSE IF ~updated.ok
        THEN [result |-> updated, vault |-> v, cmds |-> <<"bw get item">>]
        ELSE [result |-> edited.result, vault |-> edited.vault,
              cmds |-> <<"bw get item", "bw edit item">>]))))

-----------------------------------------------------------------------------
(* Password Manager: create new *)

ManagedNote(key) == "SecretSpec managed secret: " \o key

(* the members every creation template shares *)
TemplateBase(cfg, e, item_type, key) ==
    [BlankItem EXCEPT !.type = item_type,
                      !.name = key,
                      !.notes = Some(ManagedNote(key)),
                      !.organizationId = OrgId(cfg, e),
                      !.collectionIds = CollectionIds(cfg, e)]

(* the template create_login_item submits *)
create_login_item(cfg, e, key, value, target_field) ==
    With(ToLower(target_field), LAMBDA l :
        [TemplateBase(cfg, e, "Login", key) EXCEPT
            !.login = Some(CASE l = "username" -> [NoLogin EXCEPT !.username = Some(value)]
                             [] l = "totp" -> [NoLogin EXCEPT !.totp = Some(value)]
                             [] OTHER -> [NoLogin EXCEPT !.password = Some(value)])])

(* the template create_card_item submits *)
create_card_item(cfg, e, key, value, target_field) ==
    With(ToLower(target_field), LAMBDA l :
        [TemplateBase(cfg, e, "Card", key) EXCEPT
            !.card = Some(CASE l \in {"code", "cvv", "cvc"} ->
                                  [NoCard EXCEPT !.code = Some(value)]
                            [] l \in {"cardholder", "name"} ->
                                  [NoCard EXCEPT !.cardholderName = Some(value)]
                            [] l = "brand" -> [NoCard EXCEPT !.brand = Some(value)]
                            [] OTHER -> [NoCard EXCEPT !.number = Some(value)])])

(* the template create_identity_item submits *)
create_identity_item(cfg, e, key, value, target_field) ==
    With(ToLower(target_field), LAMBDA l :
        [TemplateBase(cfg, e, "Identity", key) EXCEPT
            !.identity =
                Some(CASE l = "username" -> [NoIdentity EXCEPT !.username = Some(value)]
                       [] l = "phone" -> [NoIdentity EXCEPT !.phone = Some(value)]
                       [] l = "company" -> [NoIdentity EXCEPT !.company = Some(value)]
                       [] OTHER -> [NoIdentity EXCEPT !.email = Some(value)])])

(* the template create_secure_note_item submits *)
create_secure_note_item(cfg, e, key, value, target_field) ==
    [TemplateBase(cfg, e, "SecureNote", key) EXCEPT
        !.notes = IF target_field = "notes" THEN Some(value) ELSE Some(ManagedNote(key)),
        !.secureNote = Some([type |-> 0]),
        !.fields = IF target_field # "notes"
                   THEN Some(<<JsonField(target_field, value)>>)
                   ELSE Some(<<>>)]

(* an SSH key template whose custom-field branch carries no sshKey payload *)
create_ssh_key_item_NoPayload(cfg, e, key, value, target_field) ==
    With(ToLower(target_field), LAMBDA l :
    With(TemplateBase(cfg, e, "SshKey", key), LAMBDA base :
        CASE l \in {"private_key", "privatekey", "private"} ->
                [base EXCEPT !.sshKey = Some([NoSshKey EXCEPT !.privateKey = Some(value)])]
          [] l \in {"public_key", "publickey", "public"} ->
                [base EXCEPT !.sshKey = Some([NoSshKey EXCEPT !.publicKey = Some(value)])]
          [] l \in {"fingerprint", "key_fingerprint"} ->
                [base EXCEPT
                    !.sshKey = Some([NoSshKey EXCEPT !.keyFingerprint = Some(value)])]
          [] OTHER ->
                [base EXCEPT !.fields = Some(<<JsonField(target_field, value)>>)]))

(* the template create_ssh_key_item submits *)
create_ssh_key_item(cfg, e, key, value, target_field) ==
    With(ToLower(target_field), LAMBDA l :
    With(TemplateBase(cfg, e, "SshKey", key), LAMBDA base :
        CASE l \in {"private_key", "privatekey", "private"} ->
                [base EXCEPT !.sshKey = Some([NoSshKey EXCEPT !.privateKey = Some(value)])]
          [] l \in {"public_key", "publickey", "public"} ->
                [base EXCEPT !.sshKey = Some([NoSshKey EXCEPT !.publicKey = Some(value)])]
          [] l \in {"fingerprint", "key_fingerprint"} ->
                [base EXCEPT
                    !.sshKey = Some([NoSshKey EXCEPT !.keyFingerprint = Some(value)])]
          [] OTHER ->
                [base EXCEPT !.sshKey = Some(NoSshKey),
                             !.fields = Some(<<JsonField(target_field, value)>>)]))

(* the item type create_new_item picks *)
NewItemType(cfg, e) ==
    With(OrElse(IF IsSome(e.BITWARDEN_DEFAULT_TYPE)
                THEN item_type_from_str(Unwrap(e.BITWARDEN_DEFAULT_TYPE))
                ELSE None,
                cfg.default_item_type), LAMBDA chosen :
        IF IsSome(chosen) THEN Unwrap(chosen) ELSE "Login")

(* the template create_new_item hands to create_item_from_template *)
NewItemTemplate(cfg, e, key, value) ==
    With(NewItemType(cfg, e), LAMBDA item_type :
    With(TargetField(cfg, e, item_type, key), LAMBDA target_field :
        CASE item_type = "Login" -> create_login_item(cfg, e, key, value, target_field)
          [] item_type = "Card" -> create_card_item(cfg, e, key, value, target_field)
          [] item_type = "Identity" ->
                create_identity_item(cfg, e, key, value, target_field)
          [] item_type = "SecureNote" ->
                create_secure_note_item(cfg, e, key, value, target_field)
          [] item_type = "SshKey" ->
                create_ssh_key_item(cfg, e, key, value, target_field)))

(* create_item_from_template: [result, vault] *)
create_item_from_template(v, id, fault, template) ==
    With(SpawnWithStdin(Run(fault, "bw create item", Exited(None))), LAMBDA r :
        [result |-> r,
         vault |-> IF r.ok THEN BwCreateItem(v, EncodeJson(template), id) ELSE v])

(* create_new_item: [result, vault, cmds, created] *)
create_new_item(cfg, e, v, id, fault, key, value) ==
    With(NewItemTemplate(cfg, e, key, value), LAMBDA template :
    With(create_item_from_template(v, id, fault, template), LAMBDA made :
        [result |-> made.result, vault |-> made.vault,
         cmds |-> <<"bw create item">>, submitted |-> Some(template)]))

-----------------------------------------------------------------------------
(* Password Manager: set *)

(* a set that ends before any item is written *)
PasswordManagerStop(v, r, cmds) ==
    [result |-> r, vault |-> v, cmds |-> cmds, submitted |-> None]

(* a search in one pass: the first listed item any of the three tests accepts *)
FindExistingItem_OnePass(cfg, items, project, key, profile) ==
    With(format_item_name(cfg, project, key, profile), LAMBDA legacy_item_name :
        FirstIndex(items, LAMBDA i :
            \/ i.name = legacy_item_name
            \/ i.name = key
            \/ Contains(ToLower(i.name), ToLower(key))))

(* the three search strategies of set over the listed items: the legacy   *)
(* compound name, the bare key, a name containing the key in any case; 0   *)
(* when none finds an item                                                 *)
FindExistingItem(cfg, items, project, key, profile) ==
    With(format_item_name(cfg, project, key, profile), LAMBDA legacy_item_name :
    With(FirstIndex(items, LAMBDA i : i.name = legacy_item_name), LAMBDA s1 :
    With(FirstIndex(items, LAMBDA i : i.name = key), LAMBDA s2 :
    With(FirstIndex(items, LAMBDA i : Contains(ToLower(i.name), ToLower(key))),
         LAMBDA s3 :
        IF s1 # 0 THEN s1 ELSE IF s2 # 0 THEN s2 ELSE s3))))

(* [result, vault, cmds, submitted]: submitted is the creation template, if any *)
set_to_password_manager(cfg, e, sess, v, id, fault, project, key, value, profile) ==
    With(is_authenticated(Run(fault, "bw status", BwStatus(sess))), LAMBDA auth :
    With(execute_bw_command(
             Run(fault, "bw list items", Exited(BwListItems(v, OrgId(cfg, e))))),
         LAMBDA listed :
    With(FromJson(listed.val), LAMBDA parsed :
    With(FindExistingItem(cfg, parsed.val, project, key, profile), LAMBDA found :
    With(update_existing_item(cfg, e, v, fault, parsed.val[found], key, value),
         LAMBDA upd :
    With(create_new_item(cfg, e, v, id, fault, key, value), LAMBDA new :
        IF ~auth.ok THEN PasswordManagerStop(v, auth, <<"bw status">>)
        ELSE IF ~auth.val
             THEN PasswordManagerStop(v, Err(BwAuthRequiredMsg), <<"bw status">>)
        ELSE IF ~listed.ok
             THEN PasswordManagerStop(v, listed, <<"bw status", "bw list items">>)
        ELSE IF ~parsed.ok
             THEN PasswordManagerStop(v, parsed, <<"bw status", "bw list items">>)
        ELSE IF found # 0
             THEN [result |-> upd.result, vault |-> upd.vault,
                   cmds |-> <<"bw status", "bw list items">> \o upd.cmds,
                   submitted |-> None]
        ELSE [result |-> new.result, vault |-> new.vault,
              cmds |-> <<"bw status", "bw list items">> \o new.cmds,
              submitted |-> new.submitted]))))))

-----------------------------------------------------------------------------
(* The `bws` CLI and the secrets behind it (external to the provider) *)

(* `bws secret list [project_id]` *)
BwsSecretList(ss, project_id) ==
    IF IsSome(project_id)
    THEN SelectSeq(ss, LAMBDA x : x.project_id = Unwrap(project_id))
    ELSE ss

(* `bws secret create <key> <value> <project_id> --note <note>`: refused when  *)
(* the project already holds a secret with that key (the case set handles)  *)
BwsKeyTaken(ss, key, project_id) ==
    \E k \in 1..Len(ss) : ss[k].key = key /\ ss[k].project_id = project_id

BwsSecretCreate(ss, id, key, value, project_id, note) ==
    Append(ss, [id |-> id, key |-> key, value |-> value,
                project_id |-> project_id, note |-> note])

(* `bws secret edit <id> --key <key> --value <value>` *)
BwsSecretEdit(ss, id, key, value) ==
    [k \in 1..Len(ss) |->
        IF ss[k].id = id THEN [ss[k] EXCEPT !.key = key, !.value = value] ELSE ss[k]]

-----------------------------------------------------------------------------
(* Secrets Manager: get and set *)

(* a get that looks for the bare key only *)
SecretMatchesGet_BareKeyOnly(secret, secret_name, key) ==
    secret.key = key

(* the test get applies to each listed secret *)
SecretMatchesGet(secret, secret_name, key) ==
    secret.key = secret_name \/ secret.key = key

(* a get whose guard looks for "not found" in lower case, which the        *)
(* access-denied message holds                                             *)
get_from_secrets_manager_LowerCaseGuard(cfg, ss, fault, project, key, profile) ==
    With(execute_bws_command(
             Run(fault, "bws secret list", Exited(BwsSecretList(ss, cfg.project_id)))),
         LAMBDA r :
    With(FromJson(r.val), LAMBDA parsed :
    With(FirstIndex(parsed.val,
                    LAMBDA x : SecretMatchesGet(x, project \o "_" \o key, key)),
         LAMBDA k :
        IF r.ok
        THEN IF ~parsed.ok THEN [result |-> parsed, cmds |-> <<"bws secret list">>]
             ELSE IF k # 0
                  THEN [result |-> Ok(Some(parsed.val[k].value)),
                        cmds |-> <<"bws secret list">>]
             ELSE [result |-> Ok(None), cmds |-> <<"bws secret list">>]
        ELSE IF r.kind = "ProviderOperationFailed" /\ Contains(r.err, "not found")
             THEN [result |-> Ok(None), cmds |-> <<"bws secret list">>]
        ELSE [result |-> r, cmds |-> <<"bws secret list">>])))

(* a get that takes every failure of the listing for an absent secret *)
get_from_secrets_manager_AnyErrorIsAbsent(cfg, ss, fault, project, key, profile) ==
    With(execute_bws_command(
             Run(fault, "bws secret list", Exited(BwsSecretList(ss, cfg.project_id)))),
         LAMBDA r :
    With(FromJson(r.val), LAMBDA parsed :
    With(FirstIndex(parsed.val,
                    LAMBDA x : SecretMatchesGet(x, project \o "_" \o key, key)),
         LAMBDA k :
        IF r.ok
        THEN IF ~parsed.ok THEN [result |-> parsed, cmds |-> <<"bws secret list">>]
             ELSE IF k # 0
                  THEN [result |-> Ok(Some(parsed.val[k].value)),
                        cmds |-> <<"bws secret list">>]
             ELSE [result |-> Ok(None), cmds |-> <<"bws secret list">>]
        ELSE [result |-> Ok(None), cmds |-> <<"bws secret list">>])))

get_from_secrets_manager(cfg, ss, fault, project, key, profile) ==
    With(execute_bws_command(
             Run(fault, "bws secret list", Exited(BwsSecretList(ss, cfg.project_id)))),
         LAMBDA r :
    With(FromJson(r.val), LAMBDA parsed :
    With(FirstIndex(parsed.val,
                    LAMBDA x : SecretMatchesGet(x, project \o "_" \o key, key)),
         LAMBDA k :
        IF r.ok
        THEN IF ~parsed.ok THEN [result |-> parsed, cmds |-> <<"bws secret list">>]
             ELSE IF k # 0
                  THEN [result |-> Ok(Some(parsed.val[k].value)),
                        cmds |-> <<"bws secret list">>]
             ELSE [result |-> Ok(None), cmds |-> <<"bws secret list">>]
        ELSE IF r.kind = "ProviderOperationFailed" /\ Contains(r.err, "Not found")
             THEN [result |-> Ok(None), cmds |-> <<"bws secret list">>]
        ELSE [result |-> r, cmds |-> <<"bws secret list">>])))

BwsProjectRequiredMsg ==
    "Project ID is required for Bitwarden Secrets Manager. Use bws://project-id or bws://?project=project-id"
BwsVanishedMsg ==
    "Secret creation failed with 'already exists' but could not find it in the list"

(* a set that looks for the compound key only after 'already exists' *)
SecretMatchesSet_CompoundOnly(secret, secret_name, key) ==
    secret.key = secret_name

(* the test set applies to each listed secret after 'already exists' *)
SecretMatchesSet(secret, secret_name, key) ==
    secret.key = secret_name \/ secret.key = key

(* a set that ends before any secret is written *)
SecretsManagerStop(ss, r, cmds) == [result |-> r, secrets |-> ss, cmds |-> cmds]

(* set_to_secrets_manager once the project id is known: create, and on     *)
(* 'already exists' list and edit.  [result, secrets, cmds]                 *)
CreateOrEditSecret(project_id, ss, id, fault, project, key, value) ==
    With(project \o "_" \o key, LAMBDA secret_name :
    With(execute_bws_command(
             Run(fault, "bws secret create",
                 IF BwsKeyTaken(ss, secret_name, project_id)
                 THEN Failed("Error: a secret with this key already exists")
                 ELSE Exited(None))),
         LAMBDA created :
    With(execute_bws_command(
             Run(fault, "bws secret list", Exited(BwsSecretList(ss, Some(project_id))))),
         LAMBDA listed :
    With(FromJson(listed.val), LAMBDA parsed :
    With(FirstIndex(parsed.val, LAMBDA x : SecretMatchesSet(x, secret_name, key)),
         LAMBDA k :
    With(execute_bws_command(Run(fault, "bws secret edit", Exited(None))),
         LAMBDA edited :
        IF created.ok
        THEN [result |-> Ok(None),
              secrets |-> BwsSecretCreate(ss, id, secret_name, value, project_id,
                              "SecretSpec managed secret: " \o project \o "/" \o key),
              cmds |-> <<"bws secret create">>]
        ELSE IF created.kind = "ProviderOperationFailed"
                /\ Contains(created.err, "already exists")
             THEN IF ~listed.ok
                  THEN SecretsManagerStop(ss, listed,
                                          <<"bws secret create", "bws secret list">>)
                  ELSE IF ~parsed.ok
                  THEN SecretsManagerStop(ss, parsed,
                                          <<"bws secret create", "bws secret list">>)
                  ELSE IF k # 0
                  THEN IF edited.ok
                       THEN [result |-> Ok(None),
                             secrets |-> BwsSecretEdit(ss, parsed.val[k].id,
                                                       secret_name, value),
                             cmds |-> <<"bws secret create", "bws secret list",
                                        "bws secret edit">>]
                       ELSE SecretsManagerStop(ss, edited,
                                <<"bws secret create", "bws secret list",
                                  "bws secret edit">>)
                  ELSE SecretsManagerStop(ss, Err(BwsVanishedMsg),
                                          <<"bws secret create", "bws secret list">>)
        ELSE SecretsManagerStop(ss, created, <<"bws secret create">>)))))))

(* a set that creates first, under an empty project id when none is known *)
set_to_secrets_manager_CreateFirst(cfg, ss, id, fault, project, key, value, profile) ==
    CreateOrEditSecret(IF IsSome(cfg.project_id) THEN Unwrap(cfg.project_id) ELSE "",
                       ss, id, fault, project, key, value)

(* [result, secrets, cmds] *)
set_to_secrets_manager(cfg, ss, id, fault, project, key, value, profile) ==
    IF ~IsSome(cfg.project_id)
    THEN [result |-> Err(BwsProjectRequiredMsg), secrets |-> ss, cmds |-> <<>>]
    ELSE CreateOrEditSecret(Unwrap(cfg.project_id), ss, id, fault, project, key, value)

-----------------------------------------------------------------------------
(* Provider::get and Provider::set: dispatch on the configured service *)

(* [result, cmds] *)
ProviderGet(cfg, e, sess, v, ss, fault, project, key, profile) ==
    IF cfg.service = "PasswordManager"
    THEN get_from_password_manager(cfg, e, sess, v, fault, project, key, profile)
    ELSE get_from_secrets_manager(cfg, ss, fault, project, key, profile)

(* [result, vault, secrets, cmds, submitted] *)
ProviderSet(cfg, e, sess, v, ss, id, fault, project, key, value, profile) ==
    IF cfg.service = "PasswordManager"
    THEN With(set_to_password_manager(cfg, e, sess, v, id, fault,
                                      project, key, value, profile), LAMBDA r :
             [result |-> r.result, vault |-> r.vault, secrets |-> ss,
              cmds |-> r.cmds, submitted |-> r.submitted])
    ELSE With(set_to_secrets_manager(cfg, ss, id, fault, project, key, value, profile),
              LAMBDA r :
             [result |-> r.result, vault |-> v, secrets |-> r.secrets,
              cmds |-> r.cmds, submitted |-> None])

-----------------------------------------------------------------------------
(* Bounds and input domains *)

MaxCalls == 3

Projects == {"proj"}
Keys == {"API_KEY", "USERNAME"}
Profiles == {"dev", "staging"}
Values == {"v1", "v2"}

FieldOverrides == {None, Some("username"), Some("notes"), Some("api_key")}

PMConfigs ==
    {[DefaultConfig EXCEPT !.default_item_type = Some(t), !.default_field = f] :
        t \in ItemTypes, f \in FieldOverrides}

SMConfigs ==
    {[DefaultConfig EXCEPT !.service = "SecretsManager", !.project_id = p] :
        p \in {None, Some("prj-1")}}

Envs == {NoEnv}

OldItem ==
    [BlankItem EXCEPT !.id = 1, !.name = "LEGACY_TOKEN", !.type = "Login",
                      !.notes = Some("kept"),
                      !.login = Some([NoLogin EXCEPT !.password = Some("old")])]

InitialVaults == {<<OldItem>>}

OldSecret(key, project_id) ==
    [id |-> 1, key |-> key, value |-> "old", project_id |-> project_id, note |-> ""]

InitialSecrets ==
    {<<>>, <<OldSecret("proj_API_KEY", "prj-1")>>, <<OldSecret("API_KEY", "prj-1")>>,
     <<OldSecret("proj_API_KEY", "prj-2")>>}

-----
(* The provider under a sequence of calls *)

IdleItem == BlankItem

(* no concurrent calls; no configuration parsing, no process on its own *)
NoRace == writers = <<>> /\ writeLog = <<>> /\ readBack = <<>>
NoProbe ==
    /\ url = <<>> /\ parseResult = <<>>
    /\ proc = <<>> /\ procResult = <<>>
    /\ providerSpec = "" /\ resolved = <<>>

(* what every specification starts from besides its configuration *)
InitCommon ==
    /\ env \in Envs
    /\ nextId = 2
    /\ hist = <<>>
    /\ rItem = IdleItem
    /\ rHint = ""
    /\ rResult = <<>>
    /\ rpc = "idle"
    /\ NoRace
    /\ NoProbe

(* Password Manager with an unlocked vault *)
Init ==
    /\ config \in PMConfigs
    /\ session = "unlocked"
    /\ vault \in InitialVaults
    /\ secrets = <<>>
    /\ InitCommon

(* Password Manager whose status query does not answer "unlocked" *)
InitLocked ==
    /\ config = DefaultConfig
    /\ session \in SessionStates \ {"unlocked"}
    /\ vault \in InitialVaults
    /\ secrets = <<>>
    /\ InitCommon

(* Secrets Manager *)
InitSecretsManager ==
    /\ config \in SMConfigs
    /\ session = "unlocked"
    /\ vault = <<>>
    /\ secrets \in InitialSecrets
    /\ InitCommon

(* no item name contains the key (Password Manager), no secret has the key *)
(* or the compound key (Secrets Manager)                                    *)
Fresh(cfg, v, ss, project, key) ==
    IF cfg.service = "PasswordManager"
    THEN \A k \in 1..Len(v) : ~Contains(ToLower(v[k].name), ToLower(key))
    ELSE \A k \in 1..Len(ss) : ss[k].key # key /\ ss[k].key # project \o "_" \o key

(* an item is named exactly key (Password Manager), the configured project  *)
(* holds a secret with the compound key (Secrets Manager)                   *)
Taken(cfg, v, ss, project, key) ==
    IF cfg.service = "PasswordManager"
    THEN \E k \in 1..Len(v) : v[k].name = key
    ELSE /\ IsSome(cfg.project_id)
         /\ BwsKeyTaken(ss, project \o "_" \o key, Unwrap(cfg.project_id))

(* the access token the processes of a call ran with: that of the bws     *)
(* processes, none when the call spawned no bws process                   *)
CallToken(cmds) ==
    IF config.service = "SecretsManager" /\ cmds # <<>>
    THEN AccessToken(config, env)
    ELSE None

(* the state after set: [vault, secrets, nextId, call] *)
AfterSet(project, key, value, profile, fault) ==
    With(ProviderSet(config, env, session, vault, secrets, nextId, fault,
                     project, key, value, profile), LAMBDA r :
        [vault |-> r.vault,
         secrets |-> r.secrets,
         nextId |-> IF r.vault # vault \/ r.secrets # secrets THEN nextId + 1 ELSE nextId,
         call |-> [op |-> "set", project |-> project, key |-> key, profile |-> profile,
                   value |-> Some(value), result |-> r.result, cmds |-> r.cmds,
                   fresh |-> Fresh(config, vault, secrets, project, key),
                   taken |-> Taken(config, vault, secrets, project, key),
                   submitted |-> r.submitted, fault |-> fault,
                   token |-> CallToken(r.cmds)]])

Set(project, key, value, profile, fault) ==
    /\ rpc = "idle"
    /\ Len(hist) < MaxCalls
    /\ \E after \in {AfterSet(project, key, value, profile, fault)} :
           /\ vault' = after.vault
           /\ secrets' = after.secrets
           /\ nextId' = after.nextId
           /\ hist' = Append(hist, after.call)
    /\ UNCHANGED <<config, env, session, resolveVars, raceVars, probeVars>>

(* the record of a get call *)
AfterGet(project, key, profile, fault) ==
    With(ProviderGet(config, env, session, vault, secrets, fault,
                     project, key, profile), LAMBDA r :
        [op |-> "get", project |-> project, key |-> key, profile |-> profile,
         value |-> None, result |-> r.result, cmds |-> r.cmds,
         fresh |-> Fresh(config, vault, secrets, project, key),
         taken |-> Taken(config, vault, secrets, project, key),
         submitted |-> None, fault |-> fault, token |-> CallToken(r.cmds)])

Get(project, key, profile, fault) ==
    /\ rpc = "idle"
    /\ Len(hist) < MaxCalls
    /\ hist' = Append(hist, AfterGet(project, key, profile, fault))
    /\ UNCHANGED <<config, env, session, vault, secrets, nextId, resolveVars, raceVars, probeVars>>

Next ==
    \/ \E p \in Projects, k \in Keys, v \in Values, pr \in Profiles :
           Set(p, k, v, pr, NoFault)
    \/ \E p \in Projects, k \in Keys, pr \in Profiles : Get(p, k, pr, NoFault)

Spec == Init /\ [][Next]_vars

SpecLocked == InitLocked /\ [][Next]_vars

SpecSecretsManager == InitSecretsManager /\ [][Next]_vars

-----------------------------------------------------------------------------
(* Calls in which one command fails: the command named by the fault        *)
(* finishes as the fault's outcome                                         *)

MaxFaultyCalls == 2

PasswordManagerCommands ==
    {"bw status", "bw list items", "bw get item", "bw edit item", "bw create item"}

SecretsManagerCommands == {"bws secret list", "bws secret create", "bws secret edit"}

(* the ways a `bw` process, and a `bws` process, can finish badly *)
PasswordManagerOutcomes ==
    {Failed("boom"), Failed("You are not logged in."), NotInstalled, Garbage}

SecretsManagerOutcomes ==
    {Failed("boom"), Failed("Not found"), Failed("Error: already exists"),
     NotInstalled, Garbage}

PasswordManagerFaults ==
    {[cmd |-> c, out |-> o] :
        c \in PasswordManagerCommands, o \in PasswordManagerOutcomes}

SecretsManagerFaults ==
    {[cmd |-> c, out |-> o] :
        c \in SecretsManagerCommands, o \in SecretsManagerOutcomes}

(* the faults that can hit a call of the configured service *)
Faults(cfg) ==
    {NoFault} \cup
    IF cfg.service = "PasswordManager" THEN PasswordManagerFaults
    ELSE SecretsManagerFaults

AllFaults == {NoFault} \cup PasswordManagerFaults \cup SecretsManagerFaults

InitFaults ==
    /\ config \in {DefaultConfig,
                   [DefaultConfig EXCEPT !.service = "SecretsManager",
                                         !.project_id = Some("prj-1")]}
    /\ session = "unlocked"
    /\ vault \in InitialVaults
    /\ secrets \in IF config.service = "SecretsManager"
                   THEN {<<>>, <<OldSecret("proj_API_KEY", "prj-1")>>}
                   ELSE {<<>>}
    /\ InitCommon

SetUnderFault(fault) ==
    /\ rpc = "idle"
    /\ fault \in Faults(config)
    /\ Len(hist) < MaxFaultyCalls
    /\ \E after \in {AfterSet("proj", "API_KEY", "v1", "dev", fault)} :
           /\ vault' = after.vault
           /\ secrets' = after.secrets
           /\ nextId' = after.nextId
           /\ hist' = Append(hist, after.call)
    /\ UNCHANGED <<config, env, session, resolveVars, raceVars, probeVars>>

GetUnderFault(fault) ==
    /\ rpc = "idle"
    /\ fault \in Faults(config)
    /\ Len(hist) < MaxFaultyCalls
    /\ hist' = Append(hist, AfterGet("proj", "API_KEY", "dev", fault))
    /\ UNCHANGED <<config, env, session, vault, secrets, nextId, resolveVars, raceVars, probeVars>>

NextFaults ==
    \/ \E f \in AllFaults : SetUnderFault(f)
    \/ \E f \in AllFaults : GetUnderFault(f)

SpecFaults == InitFaults /\ [][NextFaults]_vars

-----------------------------------------------------------------------------
(* Field resolution on its own: every item, hint and requested field of the *)
(* domains below, evaluated MaxEvals times                                  *)

MaxEvals == 2

Hints == {"API_KEY", "USERNAME", "DB_PASSWORD", "CARD_CODE", "PUBLIC_EMAIL", "totp_phone"}

ResolveFields ==
    {None, Some("password"), Some("number"), Some("email"), Some("public_key"),
     Some("api_key"), Some("missing")}

ResolveEnvFields == {None, Some("username")}

Maybe(x) == {None, Some(x)}

Field(name, value) == [name |-> name, value |-> value, type |-> FieldText]

FieldLists ==
    {None,
     Some(<<>>),
     Some(<<Field(Some("value"), Some("field:value"))>>),
     Some(<<Field(Some("API_KEY"), Some("field:API_KEY"))>>),
     Some(<<Field(Some("my_api_key_v2"), Some("field:partial")),
            Field(Some("Api_Key"), Some("field:exact"))>>),
     Some(<<Field(None, Some("field:unnamed")), Field(Some("USERNAME"), None)>>)}

LoginPayloads ==
    {[username |-> u, password |-> p, totp |-> t] :
        u \in Maybe("login.username"), p \in Maybe("login.password"),
        t \in Maybe("login.totp")}

CardPayloads ==
    {[NoCard EXCEPT !.number = n, !.code = c, !.cardholderName = h] :
        n \in Maybe("card.number"), c \in Maybe("card.code"),
        h \in Maybe("card.cardholderName")}

IdentityPayloads ==
    {[NoIdentity EXCEPT !.email = m, !.phone = p, !.username = u] :
        m \in Maybe("identity.email"), p \in Maybe("identity.phone"),
        u \in Maybe("identity.username")}

SshKeyPayloads ==
    {[privateKey |-> a, publicKey |-> b, keyFingerprint |-> c] :
        a \in Maybe("sshKey.privateKey"), b \in Maybe("sshKey.publicKey"),
        c \in Maybe("sshKey.keyFingerprint")}

ResolveBase(t) == [BlankItem EXCEPT !.id = 1, !.name = "item", !.type = t]

(* well-formed items: the typed payload of the item's type is present *)
ResolveItems ==
    UNION {
        {[ResolveBase("Login") EXCEPT !.login = Some(x), !.fields = f,
                                      !.notes = Some("notes")] :
            x \in LoginPayloads, f \in FieldLists},
        {[ResolveBase("SecureNote") EXCEPT !.secureNote = Some([type |-> 0]),
                                           !.fields = f, !.notes = n] :
            f \in FieldLists, n \in Maybe("notes")},
        {[ResolveBase("Card") EXCEPT !.card = Some(x), !.fields = f,
                                     !.notes = Some("notes")] :
            x \in CardPayloads, f \in FieldLists},
        {[ResolveBase("Identity") EXCEPT !.identity = Some(x), !.fields = f,
                                         !.notes = Some("notes")] :
            x \in IdentityPayloads, f \in FieldLists},
        {[ResolveBase("SshKey") EXCEPT !.sshKey = Some(x), !.fields = f,
                                       !.notes = Some("notes")] :
            x \in SshKeyPayloads, f \in FieldLists}}

InitResolve ==
    /\ config \in {[DefaultConfig EXCEPT !.default_field = f] : f \in ResolveFields}
    /\ env \in {[NoEnv EXCEPT !.BITWARDEN_DEFAULT_FIELD = f] : f \in ResolveEnvFields}
    /\ session = "unlocked"
    /\ vault = <<>>
    /\ secrets = <<>>
    /\ nextId = 2
    /\ hist = <<>>
    /\ rItem \in ResolveItems
    /\ rHint \in Hints
    /\ rResult = <<>>
    /\ rpc = "resolve"
    /\ NoRace
    /\ NoProbe

Resolve ==
    /\ rpc = "resolve"
    /\ Len(rResult) < MaxEvals
    /\ rResult' = Append(rResult, extract_value_from_item(config, env, rItem, rHint))
    /\ UNCHANGED <<callVars, rItem, rHint, rpc, raceVars, probeVars>>

NextResolve == Resolve

SpecResolve == InitResolve /\ [][NextResolve]_vars

-----------------------------------------------------------------------------
(* Calls under a configuration and an environment that both hold settings *)

ConfiguredSettings ==
    {[DefaultConfig EXCEPT !.default_item_type = Some("Card"),
                           !.default_field = Some("password"),
                           !.organization_id = Some("cfg-org"),
                           !.collection_id = Some("cfg-coll")],
     [DefaultConfig EXCEPT !.service = "SecretsManager",
                           !.project_id = Some("prj-1"),
                           !.access_token = Some("cfg-token")]}

EnvironmentSettings ==
    [BITWARDEN_DEFAULT_TYPE : {None, Some("login")},
     BITWARDEN_DEFAULT_FIELD : {None, Some("username")},
     BITWARDEN_ORGANIZATION : {None, Some("env-org")},
     BITWARDEN_COLLECTION : {None, Some("env-coll")},
     BWS_ACCESS_TOKEN : {None, Some("env-token")}]

InitEnv ==
    /\ config \in ConfiguredSettings
    /\ env \in EnvironmentSettings
    /\ session = "unlocked"
    /\ vault \in InitialVaults
    /\ secrets = <<>>
    /\ nextId = 2
    /\ hist = <<>>
    /\ rItem = IdleItem /\ rHint = "" /\ rResult = <<>> /\ rpc = "idle"
    /\ NoRace
    /\ NoProbe

NextEnv ==
    \/ SetUnderFault(NoFault)
    \/ GetUnderFault(NoFault)

SpecEnv == InitEnv /\ [][NextEnv]_vars

-----------------------------------------------------------------------------
(* The CLI transport on its own: a finished process read by                *)
(* execute_bw_command, by execute_bws_command, or by the spawn-and-wait of *)
(* `bw create item` / `bw edit item`                                       *)

Transports == {"execute_bw_command", "execute_bws_command", "spawn with stdin"}

StderrTexts ==
    {"", "boom", "mac failed.",
     "You are not logged in.", "Vault is locked.",
     "You are not logged in. Vault is locked.",
     "Vault is locked. You are not logged in.",
     "Access token is required", "Unauthorized",
     "Internal error: Failed to parse IdentityTokenResponse",
     "Resource not found", "Not found", "not found",
     "Unauthorized: Not found",
     "Not found: Access token is required",
     "Internal error: Failed to parse IdentityTokenResponse: Unauthorized",
     "Internal error: Failed to parse IdentityTokenResponse: Not found",
     "Error: a secret with this key already exists"}

ProcessOutcomes ==
    {Failed(t) : t \in StderrTexts} \cup {Exited("doc"), Garbage, NotInstalled}

InitTransport ==
    /\ config = DefaultConfig
    /\ env = NoEnv
    /\ session = "unlocked"
    /\ vault = <<>>
    /\ secrets = <<>>
    /\ nextId = 2
    /\ hist = <<>>
    /\ rItem = IdleItem /\ rHint = "" /\ rResult = <<>> /\ rpc = "idle"
    /\ NoRace
    /\ url = <<>> /\ parseResult = <<>>
    /\ providerSpec = "" /\ resolved = <<>>
    /\ proc \in [via : Transports, out : ProcessOutcomes]
    /\ procResult = None

ReadProcess ==
    /\ proc # <<>>
    /\ procResult = None
    /\ procResult' =
           Some(CASE proc.via = "execute_bw_command" -> execute_bw_command(proc.out)
                  [] proc.via = "execute_bws_command" -> execute_bws_command(proc.out)
                  [] proc.via = "spawn with stdin" -> SpawnWithStdin(proc.out))
    /\ UNCHANGED <<callVars, resolveVars, raceVars, url, parseResult, proc,
                   providerSpec, resolved>>

NextTransport == ReadProcess

SpecTransport == InitTransport /\ [][NextTransport]_vars

-----------------------------------------------------------------------------
(* impl TryFrom<&Url> for BitwardenConfig.  A Url is what Url::parse       *)
(* returned: scheme(), username() ("" when absent), host_str() and         *)
(* query_pairs() in the order they are written                             *)

ServiceOfScheme(scheme) ==
    CASE scheme = "bitwarden" -> Some("PasswordManager")
      [] scheme = "bws" -> Some("SecretsManager")
      [] OTHER -> None

InvalidScheme(scheme) ==
    Err("Invalid scheme '" \o scheme \o
        "' for Bitwarden provider. Use 'bitwarden://' for Password Manager or 'bws://' for Secrets Manager")

(* PasswordManagerAuthority without the localhost exception *)
PasswordManagerAuthority_KeepsLocalhost(cfg, u) ==
    IF IsSome(u.host)
    THEN IF u.username # ""
         THEN [cfg EXCEPT !.organization_id = Some(u.username),
                          !.collection_id = u.host]
         ELSE [cfg EXCEPT !.collection_id = u.host]
    ELSE cfg

PasswordManagerAuthority(cfg, u) ==
    IF IsSome(u.host) /\ Unwrap(u.host) # "localhost"
    THEN IF u.username # ""
         THEN [cfg EXCEPT !.organization_id = Some(u.username),
                          !.collection_id = u.host]
         ELSE [cfg EXCEPT !.collection_id = u.host]
    ELSE cfg

SecretsManagerAuthority(cfg, u) ==
    IF IsSome(u.host) /\ Unwrap(u.host) # "localhost"
    THEN [cfg EXCEPT !.project_id = u.host]
    ELSE cfg

(* TypeParam that stores whatever from_str returned, None included *)
TypeParam_StoresNone(cfg, value) ==
    [cfg EXCEPT !.default_item_type = item_type_from_str(value)]

TypeParam(cfg, value) ==
    IF IsSome(item_type_from_str(value))
    THEN [cfg EXCEPT !.default_item_type = item_type_from_str(value)]
    ELSE cfg

PasswordManagerParam(cfg, key, value) ==
    CASE key \in {"org", "organization"} -> [cfg EXCEPT !.organization_id = Some(value)]
      [] key = "collection" -> [cfg EXCEPT !.collection_id = Some(value)]
      [] key = "server" -> [cfg EXCEPT !.server = Some(value)]
      [] key = "folder" -> [cfg EXCEPT !.folder_prefix = Some(value)]
      [] key = "type" -> TypeParam(cfg, value)
      [] key = "field" -> [cfg EXCEPT !.default_field = Some(value)]
      [] OTHER -> cfg

(* SecretsManagerParam that also takes the Password Manager's `server` *)
SecretsManagerParam_TakesServer(cfg, key, value) ==
    CASE key = "project" -> [cfg EXCEPT !.project_id = Some(value)]
      [] key = "token" -> [cfg EXCEPT !.access_token = Some(value)]
      [] key = "server" -> [cfg EXCEPT !.server = Some(value)]
      [] key = "type" -> TypeParam(cfg, value)
      [] key = "field" -> [cfg EXCEPT !.default_field = Some(value)]
      [] OTHER -> cfg

SecretsManagerParam(cfg, key, value) ==
    CASE key = "project" -> [cfg EXCEPT !.project_id = Some(value)]
      [] key = "token" -> [cfg EXCEPT !.access_token = Some(value)]
      [] key = "type" -> TypeParam(cfg, value)
      [] key = "field" -> [cfg EXCEPT !.default_field = Some(value)]
      [] OTHER -> cfg

(* for (key, value) in url.query_pairs() *)
RECURSIVE QueryPairs(_, _, _)
QueryPairs(cfg, service, pairs) ==
    IF pairs = <<>> THEN cfg
    ELSE QueryPairs(IF service = "PasswordManager"
                    THEN PasswordManagerParam(cfg, pairs[1][1], pairs[1][2])
                    ELSE SecretsManagerParam(cfg, pairs[1][1], pairs[1][2]),
                    service, Tail(pairs))

(* try_from that rejects a query key neither service knows *)
try_from_StrictQuery(u) ==
    IF ServiceOfScheme(u.scheme) = None THEN InvalidScheme(u.scheme)
    ELSE IF \E i \in 1..Len(u.query) :
                u.query[i][1] \notin {"org", "organization", "collection", "server",
                                      "folder", "type", "field", "project", "token"}
    THEN Err("Unknown parameter")
    ELSE With(Unwrap(ServiceOfScheme(u.scheme)), LAMBDA service :
             Ok(QueryPairs(
                 IF service = "PasswordManager"
                 THEN PasswordManagerAuthority(
                          [DefaultConfig EXCEPT !.service = service], u)
                 ELSE SecretsManagerAuthority(
                          [DefaultConfig EXCEPT !.service = service], u),
                 service, u.query)))

try_from(u) ==
    IF ServiceOfScheme(u.scheme) = None THEN InvalidScheme(u.scheme)
    ELSE With(Unwrap(ServiceOfScheme(u.scheme)), LAMBDA service :
             Ok(QueryPairs(
                 IF service = "PasswordManager"
                 THEN PasswordManagerAuthority(
                          [DefaultConfig EXCEPT !.service = service], u)
                 ELSE SecretsManagerAuthority(
                          [DefaultConfig EXCEPT !.service = service], u),
                 service, u.query)))

(* The URLs handed to the parser: four schemes,   the authorities           *)
(* Url::parse yields (userinfo only in front of a host) and queries of at  *)
(* most MaxQuery pairs                                                     *)

MaxQuery == 2

Schemes == {"bitwarden", "bws", "bw", "keyring"}

Authorities ==
    {[username |-> "", host |-> None],
     [username |-> "", host |-> Some("localhost")],
     [username |-> "myorg", host |-> Some("localhost")],
     [username |-> "", host |-> Some("collection-123")],
     [username |-> "myorg", host |-> Some("collection-456")]}

QueryParams ==
    {<<"org", "o1">>, <<"organization", "o2">>,
     <<"collection", "c1">>, <<"collection", "c2">>,
     <<"server", "https://vault.company.com">>,
     <<"folder", "custom/{project}/{profile}">>,
     <<"type", "Card">>, <<"type", "NOTE">>, <<"type", "ssh_key">>,
     <<"type", "bogus">>,
     <<"field", "api_key">>,
     <<"project", "p1">>, <<"project", "p2">>, <<"token", "my-token">>,
     <<"Type", "card">>, <<"region", "eu">>}

Queries == UNION {[1..n -> QueryParams] : n \in 0..MaxQuery}

Urls ==
    {[scheme |-> s, username |-> a.username, host |-> a.host, query |-> q] :
        s \in Schemes, a \in Authorities, q \in Queries}

InitParse ==
    /\ config = DefaultConfig
    /\ env = NoEnv
    /\ session = "unlocked"
    /\ vault = <<>>
    /\ secrets = <<>>
    /\ nextId = 2
    /\ hist = <<>>
    /\ rItem = IdleItem /\ rHint = "" /\ rResult = <<>> /\ rpc = "idle"
    /\ NoRace
    /\ url \in Urls
    /\ parseResult = None
    /\ proc = <<>> /\ procResult = <<>>
    /\ providerSpec = "" /\ resolved = <<>>

Parse ==
    /\ url # <<>>
    /\ parseResult = None
    /\ parseResult' = Some(try_from(url))
    /\ UNCHANGED <<callVars, resolveVars, raceVars, url, proc, procResult,
                   providerSpec, resolved>>

NextParse == Parse

SpecParse == InitParse /\ [][NextParse]_vars

-----------------------------------------------------------------------------
(* The provider registry: Box<dyn Provider>::try_from(&str).  The provider *)
(* registers itself with register_provider!; the lookup itself, the other  *)
(* providers' registrations and Url::parse follow the registry's           *)
(* description and the calls of provider/tests.rs                          *)

(* the registration with the Secrets Manager scheme left out *)
BitwardenRegistration_WithoutBws ==
    [name |-> "bitwarden", schemes |-> {"bitwarden"}]

BitwardenRegistration ==
    [name |-> "bitwarden", schemes |-> {"bitwarden", "bws"}]

(* Provider::name of a BitwardenProvider: Self::PROVIDER_NAME *)
PROVIDER_NAME == BitwardenRegistration.name

OtherRegistrations ==
    {[name |-> "env", schemes |-> {"env"}],
     [name |-> "keyring", schemes |-> {"keyring"}],
     [name |-> "dotenv", schemes |-> {"dotenv"}],
     [name |-> "onepassword", schemes |-> {"onepassword", "onepassword+token"}],
     [name |-> "lastpass", schemes |-> {"lastpass"}]}

Registry == {BitwardenRegistration} \cup OtherRegistrations

ProviderNotFound(scheme) ==
    [ok |-> FALSE, val |-> <<>>, kind |-> "ProviderNotFound", err |-> scheme]

(* the index of the first occurrence of t in s, 0 when there is none *)
Find(s, t) ==
    Least({i \in 1..(Len(s) - Len(t) + 1) : SubSeq(s, i, i + Len(t) - 1) = t})

(* a bare name, with or without its colon, is a scheme-only URI *)
NormalizeUri(s) ==
    IF Contains(s, "://") THEN s
    ELSE IF Len(s) > 0 /\ SubSeq(s, Len(s), Len(s)) = ":" THEN s \o "//"
    ELSE s \o "://"

SchemeOf(uri) == SubSeq(uri, 1, Find(uri, "://") - 1)

(* Url::parse of scheme://[username@][host] *)
UrlOf(uri) ==
    With(SubSeq(uri, Find(uri, "://") + 3, Len(uri)), LAMBDA authority :
        [scheme |-> SchemeOf(uri),
         username |-> IF Contains(authority, "@")
                      THEN SubSeq(authority, 1, Find(authority, "@") - 1)
                      ELSE "",
         host |-> With(SubSeq(authority, Find(authority, "@") + 1, Len(authority)),
                       LAMBDA h : IF h = "" THEN None ELSE Some(h)),
         query |-> <<>>])

(* the constructor a registration carries: the configuration parsed from *)
(* the URI, then the provider's new                                      *)
Construct(registration, uri) ==
    IF registration = BitwardenRegistration
    THEN With(try_from(UrlOf(uri)), LAMBDA parsed_config :
             IF parsed_config.ok
             THEN Ok([name |-> PROVIDER_NAME, config |-> Some(parsed_config.val)])
             ELSE parsed_config)
    ELSE Ok([name |-> registration.name, config |-> None])

provider_try_from(s) ==
    With(SchemeOf(NormalizeUri(s)), LAMBDA scheme :
        IF scheme = "1password"
        THEN Err("Invalid scheme '1password'. Use 'onepassword' instead")
        ELSE IF \E r \in Registry : scheme \in r.schemes
        THEN Construct(CHOOSE r \in Registry : scheme \in r.schemes, NormalizeUri(s))
        ELSE ProviderNotFound(scheme))

(* The provider strings handed to the registry: a name alone, with a *)
(* colon, or in front of :// and an authority                        *)

ProviderNames ==
    {"bitwarden", "bws", "env", "keyring", "dotenv", "onepassword", "lastpass",
     "onepassword+token", "1password", "unknown", "bw"}

ProviderForms ==
    {"", ":", "://", "://Private", "://localhost", "://org@collection", "://project-id"}

InitRegistry ==
    /\ config = DefaultConfig
    /\ env = NoEnv
    /\ session = "unlocked"
    /\ vault = <<>>
    /\ secrets = <<>>
    /\ nextId = 2
    /\ hist = <<>>
    /\ rItem = IdleItem /\ rHint = "" /\ rResult = <<>> /\ rpc = "idle"
    /\ NoRace
    /\ url = <<>> /\ parseResult = <<>>
    /\ proc = <<>> /\ procResult = <<>>
    /\ providerSpec \in {n \o f : n \in ProviderNames, f \in ProviderForms}
    /\ resolved = None

Lookup ==
    /\ providerSpec # ""
    /\ resolved = None
    /\ resolved' = Some(provider_try_from(providerSpec))
    /\ UNCHANGED <<callVars, resolveVars, raceVars, url, parseResult, proc, procResult,
                   providerSpec>>

NextRegistry == Lookup

SpecRegistry == InitRegistry /\ [][NextRegistry]_vars

-----------------------------------------------------------------------------
(* One set on a Password Manager vault that lists up to MaxListed items,   *)
(* named by the legacy compound name, by the key, by a name containing the *)
(* key, or by none of them                                                 *)

MaxListed == 3

ListedNames ==
    {"secretspec/proj/dev/API_KEY", "custom/proj/API_KEY", "API_KEY",
     "my_api_key_v2", "LEGACY_TOKEN"}

ListedItem(id, name) ==
    [BlankItem EXCEPT !.id = id, !.name = name, !.type = "Login",
                      !.login = Some([NoLogin EXCEPT !.password = Some("old")])]

ListedVaults ==
    UNION {{[k \in 1..n |-> ListedItem(k, names[k])] : names \in [1..n -> ListedNames]} :
              n \in 0..MaxListed}

InitSelect ==
    /\ config \in {DefaultConfig,
                   [DefaultConfig EXCEPT !.folder_prefix = Some("custom/{project}")]}
    /\ env = NoEnv
    /\ session = "unlocked"
    /\ vault \in ListedVaults
    /\ secrets = <<>>
    /\ nextId = Len(vault) + 1
    /\ hist = <<>>
    /\ rItem = IdleItem /\ rHint = "" /\ rResult = <<>> /\ rpc = "idle"
    /\ NoRace
    /\ NoProbe

SetOnce(project, key, value, profile) ==
    /\ hist = <<>>
    /\ Set(project, key, value, profile, NoFault)

NextSelect ==
    \E p \in Projects, k \in Keys, v \in Values, pr \in Profiles : SetOnce(p, k, v, pr)

SpecSelect == InitSelect /\ [][NextSelect]_vars

-----------------------------------------------------------------------------
(* One call on the Secrets Manager, with or without a failing command,     *)
(* over stores that hold the compound key, the bare key, both in either    *)
(* order, or neither, in the configured project or in another              *)

StoredSecret(id, key, project_id) ==
    [id |-> id, key |-> key, value |-> IF id = 1 THEN "s1" ELSE "s2",
     project_id |-> project_id, note |-> ""]

StoredSecrets ==
    {<<>>,
     <<StoredSecret(1, "proj_API_KEY", "prj-1")>>,
     <<StoredSecret(1, "API_KEY", "prj-1")>>,
     <<StoredSecret(1, "OTHER_KEY", "prj-1")>>,
     <<StoredSecret(1, "proj_API_KEY", "prj-2")>>,
     <<StoredSecret(1, "API_KEY", "prj-1"), StoredSecret(2, "proj_API_KEY", "prj-1")>>,
     <<StoredSecret(1, "proj_API_KEY", "prj-1"), StoredSecret(2, "API_KEY", "prj-1")>>,
     <<StoredSecret(1, "API_KEY", "prj-2"), StoredSecret(2, "proj_API_KEY", "prj-1")>>,
     <<StoredSecret(1, "OTHER_KEY", "prj-1"), StoredSecret(2, "API_KEY", "prj-1")>>}

InitKv ==
    /\ config \in SMConfigs
    /\ env = NoEnv
    /\ session = "unlocked"
    /\ vault = <<>>
    /\ secrets \in StoredSecrets
    /\ nextId = Len(secrets) + 1
    /\ hist = <<>>
    /\ rItem = IdleItem /\ rHint = "" /\ rResult = <<>> /\ rpc = "idle"
    /\ NoRace
    /\ NoProbe

KvSet(fault) == hist = <<>> /\ SetUnderFault(fault)

KvGet(fault) == hist = <<>> /\ GetUnderFault(fault)

NextKv ==
    \/ \E f \in AllFaults : KvSet(f)
    \/ \E f \in AllFaults : KvGet(f)

SpecKv == InitKv /\ [][NextKv]_vars

-----------------------------------------------------------------------------
(* Sets and gets of one key whose item exists, of every type and with its  *)
(* typed sub-fields populated, under a field override taken from the       *)
(* environment, which may change between two calls                         *)

MaxUpdates == 2

UpdateKey == "API_KEY"

UpdateFields ==
    {None, Some("api_key"), Some("Api_Key"), Some("region"), Some("password"),
     Some("notes")}

UpdateFieldLists ==
    {None,
     Some(<<>>),
     Some(<<Field(Some("region"), Some("field:region")),
            Field(Some("api_key"), Some("field:api_key"))>>),
     Some(<<Field(Some("api_key"), Some("field:first")),
            Field(None, Some("field:unnamed")),
            Field(Some("api_key"), Some("field:second"))>>)}

FullLogin ==
    [username |-> Some("login.username"), password |-> Some("login.password"),
     totp |-> Some("login.totp")]
FullCard ==
    [number |-> Some("card.number"), code |-> Some("card.code"),
     cardholderName |-> Some("card.cardholderName"), brand |-> Some("card.brand"),
     expMonth |-> Some("card.expMonth"), expYear |-> Some("card.expYear")]
FullIdentity ==
    [firstName |-> Some("identity.firstName"), lastName |-> Some("identity.lastName"),
     username |-> Some("identity.username"), company |-> Some("identity.company"),
     email |-> Some("identity.email"), phone |-> Some("identity.phone")]
FullSshKey ==
    [privateKey |-> Some("sshKey.privateKey"), publicKey |-> Some("sshKey.publicKey"),
     keyFingerprint |-> Some("sshKey.keyFingerprint")]

(* the item of type t named name, as the vault holds it *)
FullItem(t, name, fields) ==
    With([BlankItem EXCEPT !.id = 1, !.name = name, !.type = t,
                           !.notes = Some("notes"), !.fields = fields,
                           !.organizationId = Some("org-1"),
                           !.collectionIds = Some(<<"coll-1">>)],
         LAMBDA base :
        CASE t = "Login" -> [base EXCEPT !.login = Some(FullLogin)]
          [] t = "SecureNote" -> [base EXCEPT !.secureNote = Some([type |-> 0])]
          [] t = "Card" -> [base EXCEPT !.card = Some(FullCard)]
          [] t = "Identity" -> [base EXCEPT !.identity = Some(FullIdentity)]
          [] t = "SshKey" -> [base EXCEPT !.sshKey = Some(FullSshKey)])

InitUpdate ==
    /\ config = DefaultConfig
    /\ env \in {[NoEnv EXCEPT !.BITWARDEN_DEFAULT_FIELD = f] : f \in UpdateFields}
    /\ session = "unlocked"
    /\ vault \in {<<FullItem(t, UpdateKey, f)>> : t \in ItemTypes, f \in UpdateFieldLists}
    /\ secrets = <<>>
    /\ nextId = 2
    /\ hist = <<>>
    /\ rItem = IdleItem /\ rHint = "" /\ rResult = <<>> /\ rpc = "idle"
    /\ NoRace
    /\ NoProbe

UpdateSet(value) ==
    /\ Len(hist) < MaxUpdates
    /\ Set("proj", UpdateKey, value, "dev", NoFault)

UpdateGet ==
    /\ Len(hist) < MaxUpdates
    /\ hist # <<>>
    /\ hist[Len(hist)].op = "set"
    /\ Get("proj", UpdateKey, "dev", NoFault)

(* BITWARDEN_DEFAULT_FIELD is set anew between two sets *)
Setenv(field) ==
    /\ Len(hist) < MaxUpdates
    /\ hist # <<>>
    /\ hist[Len(hist)].op = "set"
    /\ env.BITWARDEN_DEFAULT_FIELD # field
    /\ env' = [env EXCEPT !.BITWARDEN_DEFAULT_FIELD = field]
    /\ UNCHANGED <<config, session, vault, secrets, nextId, hist,
                   resolveVars, raceVars, probeVars>>

NextUpdate ==
    \/ \E v \in Values : UpdateSet(v)
    \/ UpdateGet
    \/ \E f \in UpdateFields : Setenv(f)

SpecUpdate == InitUpdate /\ [][NextUpdate]_vars

-----------------------------------------------------------------------------
(* The custom-field lookup on its own: every list of up to MaxFields       *)
(* fields, named or not, with or without a value, asked for one name.  The *)
(* value of a field tells its position in the list.                        *)

MaxFields == 3

LookupNames == {None, Some("api_key"), Some("API_KEY"), Some("my_api_key_v2"), Some("notes")}

LookupRequests == {"api_key", "Api_Key", "API_KEY", "missing"}

PositionTags == <<"field:1", "field:2", "field:3", "field:4", "field:5">>

LookupEntries == [name : LookupNames, valued : BOOLEAN]

LookupLists == UNION {[1..k -> LookupEntries] : k \in 0..MaxFields}

LookupFields(entries) ==
    [i \in 1..Len(entries) |->
        [name |-> entries[i].name,
         value |-> IF entries[i].valued THEN Some(PositionTags[i]) ELSE None,
         type |-> FieldText]]

LookupItems ==
    {ResolveBase("Login")}
        \cup {[ResolveBase("Login") EXCEPT !.fields = Some(LookupFields(e))] :
                 e \in LookupLists}

InitLookup ==
    /\ config = DefaultConfig
    /\ env = NoEnv
    /\ session = "unlocked"
    /\ vault = <<>>
    /\ secrets = <<>>
    /\ nextId = 2
    /\ hist = <<>>
    /\ rItem \in LookupItems
    /\ rHint \in LookupRequests
    /\ rResult = <<>>
    /\ rpc = "lookup"
    /\ NoRace
    /\ NoProbe

LookupField ==
    /\ rpc = "lookup"
    /\ rResult = <<>>
    /\ rResult' = <<extract_from_custom_fields(rItem, rHint)>>
    /\ UNCHANGED <<callVars, rItem, rHint, rpc, raceVars, probeVars>>

NextLookup == LookupField

SpecLookup == InitLookup /\ [][NextLookup]_vars

-----------------------------------------------------------------------------
(* A set and then a get of the key an existing item is named after: the    *)
(* item has every typed sub-field of its type, no field override is        *)
(* configured or in the environment.                                       *)

AgreeFieldLists == {None, Some(<<Field(Some("region"), Some("field:region"))>>)}

InitAgree ==
    /\ config = DefaultConfig
    /\ env = NoEnv
    /\ session = "unlocked"
    /\ vault \in {<<FullItem(t, k, f)>> : t \in ItemTypes, k \in Hints, f \in AgreeFieldLists}
    /\ secrets = <<>>
    /\ nextId = 2
    /\ hist = <<>>
    /\ rItem = IdleItem
    /\ rHint = ""
    /\ rResult = <<>>
    /\ rpc = "idle"
    /\ NoRace
    /\ NoProbe

AgreeSet(key, value) ==
    /\ hist = <<>>
    /\ key = vault[1].name
    /\ Set("proj", key, value, "dev", NoFault)

AgreeGet(key) ==
    /\ Len(hist) = 1
    /\ key = vault[1].name
    /\ Get("proj", key, "dev", NoFault)

NextAgree ==
    \/ \E k \in Hints, v \in Values : AgreeSet(k, v)
    \/ \E k \in Hints : AgreeGet(k)

SpecAgree == InitAgree /\ [][NextAgree]_vars

-----------------------------------------------------------------------------
(* Two set calls for the same secret running at the same time.  A call is  *)
(* the sequence of its processes; the processes of the two calls           *)
(* interleave, each process acting on the backend at once.  A get follows  *)
(* when both calls have returned.                                          *)

Writers == {1, 2}

WriterValue(w) == IF w = 1 THEN "v1" ELSE "v2"

RaceProject == "proj"
RaceKey == "API_KEY"
RaceProfile == "dev"

RaceItem ==
    [BlankItem EXCEPT !.id = 2, !.name = "API_KEY", !.type = "Login",
                      !.login = Some([NoLogin EXCEPT !.password = Some("old")])]

InitRace ==
    /\ config \in {[DefaultConfig EXCEPT !.default_item_type = Some(t)] :
                       t \in ItemTypes}
                  \cup {[DefaultConfig EXCEPT !.service = "SecretsManager",
                                               !.project_id = Some("prj-1")]}
    /\ env = NoEnv
    /\ session = "unlocked"
    /\ vault \in IF config.service = "PasswordManager"
                 THEN {<<OldItem>>, <<OldItem, RaceItem>>}
                 ELSE {<<>>}
    /\ secrets \in IF config.service = "SecretsManager"
                   THEN {<<>>, <<OldSecret("proj_API_KEY", "prj-1")>>}
                   ELSE {<<>>}
    /\ nextId = 3
    /\ hist = <<>>
    /\ rItem = IdleItem /\ rHint = "" /\ rResult = <<>> /\ rpc = "idle"
    /\ writers = [w \in Writers |->
                     [pc |-> IF config.service = "PasswordManager"
                             THEN "status" ELSE "create secret",
                      item |-> BlankItem, item_json |-> BlankItem,
                      secret_id |-> 0, result |-> None]]
    /\ writeLog = <<>>
    /\ readBack = None
    /\ NoProbe

(* the call of writer w returns r *)
Return(w, r) == [writers EXCEPT ![w].pc = "done", ![w].result = Some(r)]

(* set_to_password_manager: is_authenticated *)
WStatus(w) ==
    /\ writers[w].pc = "status"
    /\ writers' =
           With(is_authenticated(BwStatus(session)), LAMBDA auth :
               IF ~auth.ok THEN Return(w, auth)
               ELSE IF ~auth.val THEN Return(w, Err(BwAuthRequiredMsg))
               ELSE [writers EXCEPT ![w].pc = "list"])
    /\ UNCHANGED <<callVars, resolveVars, writeLog, readBack, probeVars>>

(* set_to_password_manager: list the items and search them *)
WList(w) ==
    /\ writers[w].pc = "list"
    /\ writers' =
           With(execute_bw_command(Exited(BwListItems(vault, OrgId(config, env)))),
                LAMBDA listed :
           With(FromJson(listed.val), LAMBDA items :
           With(FindExistingItem(config, items.val, RaceProject, RaceKey, RaceProfile),
                LAMBDA found :
               IF ~listed.ok THEN Return(w, listed)
               ELSE IF ~items.ok THEN Return(w, items)
               ELSE IF found # 0
                    THEN [writers EXCEPT ![w].pc = "get item",
                                         ![w].item = items.val[found]]
               ELSE [writers EXCEPT ![w].pc = "create"])))
    /\ UNCHANGED <<callVars, resolveVars, writeLog, readBack, probeVars>>

(* update_existing_item: fetch the item and write the value into it *)
WGetItem(w) ==
    /\ writers[w].pc = "get item"
    /\ writers' =
           With(writers[w].item, LAMBDA item :
           With(get_item_as_template(vault, NoFault, item.id), LAMBDA fetched :
           With(UpdatedItemJson(item.type, fetched.val,
                                TargetField(config, env, item.type, RaceKey),
                                WriterValue(w)),
                LAMBDA updated :
               IF ~fetched.ok THEN Return(w, fetched)
               ELSE IF ~updated.ok THEN Return(w, updated)
               ELSE [writers EXCEPT ![w].pc = "edit",
                                    ![w].item_json = updated.val])))
    /\ UNCHANGED <<callVars, resolveVars, writeLog, readBack, probeVars>>

(* update_existing_item: update_item_with_json *)
WEdit(w) ==
    /\ writers[w].pc = "edit"
    /\ \E edited \in {update_item_with_json(vault, NoFault, writers[w].item.id,
                                             writers[w].item_json)} :
           /\ vault' = edited.vault
           /\ writers' = Return(w, edited.result)
           /\ writeLog' = IF edited.result.ok THEN Append(writeLog, w) ELSE writeLog
    /\ UNCHANGED <<config, env, session, secrets, nextId, hist, resolveVars,
                   readBack, probeVars>>

(* set_to_password_manager: create_new_item *)
WCreate(w) ==
    /\ writers[w].pc = "create"
    /\ \E made \in {create_new_item(config, env, vault, nextId, NoFault,
                                     RaceKey, WriterValue(w))} :
           /\ vault' = made.vault
           /\ writers' = Return(w, made.result)
           /\ writeLog' = IF made.result.ok THEN Append(writeLog, w) ELSE writeLog
    /\ nextId' = nextId + 1
    /\ UNCHANGED <<config, env, session, secrets, hist, resolveVars,
                   readBack, probeVars>>

(* set_to_secrets_manager: the project id check and `bws secret create` *)
SCreate(w) ==
    /\ writers[w].pc = "create secret"
    /\ IF ~IsSome(config.project_id)
       THEN /\ writers' = Return(w, Err(BwsProjectRequiredMsg))
            /\ UNCHANGED <<secrets, nextId, writeLog>>
       ELSE \E created \in
                {execute_bws_command(
                     IF BwsKeyTaken(secrets, RaceProject \o "_" \o RaceKey,
                                    Unwrap(config.project_id))
                     THEN Failed("Error: a secret with this key already exists")
                     ELSE Exited(None))} :
                IF created.ok
                THEN /\ secrets' =
                            BwsSecretCreate(secrets, nextId,
                                RaceProject \o "_" \o RaceKey, WriterValue(w),
                                Unwrap(config.project_id),
                                "SecretSpec managed secret: " \o RaceProject
                                    \o "/" \o RaceKey)
                     /\ nextId' = nextId + 1
                     /\ writers' = Return(w, Ok(None))
                     /\ writeLog' = Append(writeLog, w)
                ELSE /\ writers' =
                            IF created.kind = "ProviderOperationFailed"
                               /\ Contains(created.err, "already exists")
                            THEN [writers EXCEPT ![w].pc = "list secrets"]
                            ELSE Return(w, created)
                     /\ UNCHANGED <<secrets, nextId, writeLog>>
    /\ UNCHANGED <<config, env, session, vault, hist, resolveVars,
                   readBack, probeVars>>

(* set_to_secrets_manager: `bws secret list` after 'already exists' *)
SList(w) ==
    /\ writers[w].pc = "list secrets"
    /\ writers' =
           With(execute_bws_command(Exited(BwsSecretList(secrets, config.project_id))),
                LAMBDA listed :
           With(FromJson(listed.val), LAMBDA found :
           With(FirstIndex(found.val,
                    LAMBDA x : SecretMatchesSet(x, RaceProject \o "_" \o RaceKey,
                                                RaceKey)),
                LAMBDA k :
               IF ~listed.ok THEN Return(w, listed)
               ELSE IF ~found.ok THEN Return(w, found)
               ELSE IF k # 0
                    THEN [writers EXCEPT ![w].pc = "edit secret",
                                         ![w].secret_id = found.val[k].id]
               ELSE Return(w, Err(BwsVanishedMsg)))))
    /\ UNCHANGED <<callVars, resolveVars, writeLog, readBack, probeVars>>

(* set_to_secrets_manager: `bws secret edit` *)
SEdit(w) ==
    /\ writers[w].pc = "edit secret"
    /\ \E edited \in {execute_bws_command(Exited(None))} :
           /\ secrets' = IF edited.ok
                         THEN BwsSecretEdit(secrets, writers[w].secret_id,
                                            RaceProject \o "_" \o RaceKey,
                                            WriterValue(w))
                         ELSE secrets
           /\ writers' = Return(w, IF edited.ok THEN Ok(None) ELSE edited)
           /\ writeLog' = IF edited.ok THEN Append(writeLog, w) ELSE writeLog
    /\ UNCHANGED <<config, env, session, vault, nextId, hist, resolveVars,
                   readBack, probeVars>>

(* the get made when both calls have returned *)
ReadBack ==
    /\ \A w \in Writers : writers[w].pc = "done"
    /\ readBack = None
    /\ readBack' = Some(ProviderGet(config, env, session, vault, secrets, NoFault,
                                    RaceProject, RaceKey, RaceProfile).result)
    /\ UNCHANGED <<callVars, resolveVars, writers, writeLog, probeVars>>

NextRace ==
    \/ \E w \in Writers : WStatus(w)
    \/ \E w \in Writers : WList(w)
    \/ \E w \in Writers : WGetItem(w)
    \/ \E w \in Writers : WEdit(w)
    \/ \E w \in Writers : WCreate(w)
    \/ \E w \in Writers : SCreate(w)
    \/ \E w \in Writers : SList(w)
    \/ \E w \in Writers : SEdit(w)
    \/ ReadBack

SpecRace == InitRace /\ [][NextRace]_vars

-----------------------------------------------------------------------------
(* Properties of the calls of a behaviour of Spec *)

IsPM == config.service = "PasswordManager"
IsSM == config.service = "SecretsManager"

SameSecret(a, b) == a.project = b.project /\ a.key = b.key /\ a.profile = b.profile

SucceededSet(c) == c.op = "set" /\ c.result.ok
SucceededGet(c) == c.op = "get" /\ c.result.ok

(* call i is a successful set and call i + 1 a successful get of its secret *)
SetThenGet(i) ==
    /\ i + 1 <= Len(hist)
    /\ SucceededSet(hist[i])
    /\ SucceededGet(hist[i + 1])
    /\ SameSecret(hist[i], hist[i + 1])

(* C1: Password Manager round trip.  For every item type and field        *)
(* override, a successful set of value v into a vault with no item whose   *)
(* name contains the key, followed by a successful get of the same         *)
(* project, key and profile, returns exactly v.                            *)
C1_RoundTripPasswordManager ==
    IsPM => \A i \in 1..Len(hist) :
                (SetThenGet(i) /\ hist[i].fresh)
                    => hist[i + 1].result.val = hist[i].value

(* C2: Secrets Manager round trip.  With a project id configured, a        *)
(* successful set of v followed by a get of the same project and key       *)
(* returns v, both when no secret had the key or the compound key before   *)
(* and when a secret with the compound key already existed (the edit path). *)
C2_RoundTripSecretsManager ==
    IsSM => \A i \in 1..Len(hist) :
                (SetThenGet(i) /\ (hist[i].fresh \/ hist[i].taken))
                    => hist[i + 1].result.val = hist[i].value

C2_EditPathRoundTrip ==
    /\ IsSM
    /\ \E i \in 1..Len(hist) :
           /\ SetThenGet(i)
           /\ hist[i].taken
           /\ hist[i].cmds = <<"bws secret create", "bws secret list", "bws secret edit">>
           /\ hist[i + 1].result.val = hist[i].value

(* C3: profile isolation.  A value a get returns for (project, key,        *)
(* profile) was stored by a set for that same profile: a set under another *)
(* profile is never visible.                                               *)
C3_ProfileIsolation ==
    \A i \in 1..Len(hist) :
        (SucceededGet(hist[i]) /\ IsSome(hist[i].result.val)
         /\ Unwrap(hist[i].result.val) \in Values)
            => \E j \in 1..(i - 1) :
                   /\ SucceededSet(hist[j])
                   /\ SameSecret(hist[j], hist[i])
                   /\ hist[j].value = hist[i].result.val

(* the stored objects that answer to the key of call c *)
StoredFor(c) ==
    IF IsPM
    THEN {k \in 1..Len(vault) : vault[k].name = c.key}
    ELSE {k \in 1..Len(secrets) :
              /\ secrets[k].key = c.project \o "_" \o c.key
              /\ Some(secrets[k].project_id) = config.project_id}

(* calls i and i + 1 are the same successful set, the first into a store   *)
(* that did not hold the key                                               *)
SetTwice(i) ==
    /\ i + 1 <= Len(hist)
    /\ SucceededSet(hist[i])
    /\ SucceededSet(hist[i + 1])
    /\ SameSecret(hist[i], hist[i + 1])
    /\ hist[i].value = hist[i + 1].value
    /\ hist[i].fresh

(* C4: idempotent set.  Repeating a successful set with the same arguments *)
(* succeeds without creating a second item or secret, and a get afterwards *)
(* returns v.                                                              *)
C4_IdempotentSet ==
    \A i \in 1..Len(hist) :
        SetTwice(i) =>
            /\ hist[i + 1].submitted = None
            /\ (Len(hist) = i + 1 => Cardinality(StoredFor(hist[i])) = 1)
            /\ (/\ i + 2 <= Len(hist)
                /\ SucceededGet(hist[i + 2])
                /\ SameSecret(hist[i], hist[i + 2]))
                   => hist[i + 2].result.val = hist[i].value

(* the typed payload members of a document and the type tag each belongs to *)
PayloadMembers == {"login", "secureNote", "card", "identity", "sshKey"}

PayloadTag(member) ==
    CASE member = "login" -> 1
      [] member = "secureNote" -> 2
      [] member = "card" -> 3
      [] member = "identity" -> 4
      [] member = "sshKey" -> 5

PayloadsOf(doc) == {m \in PayloadMembers : IsSome(doc[m])}

(* C8: every document submitted for creation carries exactly one typed     *)
(* payload, and it is the payload of the document's numeric type tag       *)
(* (1 login, 2 secure note, 3 card, 4 identity, 5 SSH key).                *)
C8_CreatedTypeTag ==
    \A i \in 1..Len(hist) :
        IsSome(hist[i].submitted) =>
            \E m \in PayloadMembers :
                /\ PayloadsOf(Unwrap(hist[i].submitted)) = {m}
                /\ PayloadTag(m) = item_type_to_u8(Unwrap(hist[i].submitted).type)

C8_SshKeyWithCustomFieldCreated ==
    \E i \in 1..Len(hist) :
        /\ IsSome(hist[i].submitted)
        /\ hist[i].result.ok
        /\ Unwrap(hist[i].submitted).type = "SshKey"
        /\ IsSome(Unwrap(hist[i].submitted).fields)
        /\ PayloadsOf(Unwrap(hist[i].submitted)) = {"sshKey"}

AuthErrors == {Err(BwLoginMsg), Err(BwLockedMsg), Err(BwAuthRequiredMsg)}

(* the vault every behaviour of Spec starts from *)
UntouchedVault == vault \in InitialVaults

UntouchedSecrets == secrets \in InitialSecrets /\ nextId = 2

-----------------------------------------------------------------------------
(* Properties of field resolution, over the behaviours of SpecResolve *)

Override == RequestedField(config, env)

Resolved == rResult[1]

(* the sub-field a keyword set of the item's type guards, when the hint     *)
(* contains one of its keywords                                            *)
HintedField(hint, keywords, field) ==
    IF ContainsAny(ToLower(hint), keywords) /\ IsSome(field) THEN {field} ELSE {}

(* the populated sub-fields the hint points at *)
Hinted(item, hint) ==
    CASE item.type = "Login" ->
            HintedField(hint, {"password", "pass", "secret", "token"},
                        Unwrap(item.login).password)
            \cup HintedField(hint, {"user", "login"}, Unwrap(item.login).username)
            \cup HintedField(hint, {"totp", "2fa", "mfa"}, Unwrap(item.login).totp)
      [] item.type = "Card" ->
            HintedField(hint, {"number", "card"}, Unwrap(item.card).number)
            \cup HintedField(hint, {"code", "cvv", "cvc"}, Unwrap(item.card).code)
      [] item.type = "Identity" ->
            HintedField(hint, {"email", "mail"}, Unwrap(item.identity).email)
            \cup HintedField(hint, {"phone", "tel"}, Unwrap(item.identity).phone)
            \cup HintedField(hint, {"user", "login"}, Unwrap(item.identity).username)
      [] item.type = "SshKey" ->
            HintedField(hint, {"public", "pub"}, Unwrap(item.sshKey).publicKey)
            \cup HintedField(hint, {"fingerprint", "finger"},
                             Unwrap(item.sshKey).keyFingerprint)
      [] item.type = "SecureNote" -> {}

(* the fixed default of the item's type: Login password else username,     *)
(* SecureNote the custom field `value` else the notes, Card number,         *)
(* Identity email else username, SshKey private key                        *)
TypeDefault(item) ==
    CASE item.type = "Login" ->
            OrElse(Unwrap(item.login).password, Unwrap(item.login).username)
      [] item.type = "SecureNote" ->
            OrElse(extract_from_custom_fields(item, "value").val, item.notes)
      [] item.type = "Card" -> Unwrap(item.card).number
      [] item.type = "Identity" ->
            OrElse(Unwrap(item.identity).email, Unwrap(item.identity).username)
      [] item.type = "SshKey" -> Unwrap(item.sshKey).privateKey

(* C5: field-resolution priority.  An override decides the result          *)
(* regardless of the hint; with no override a hint that matches a keyword  *)
(* set of the item's type decides over the type's fixed default; the fixed *)
(* default comes before any custom-field lookup by hint; custom fields are *)
(* consulted by hint only when the typed payload produced no value.        *)
C5_ResolutionPriority ==
    Len(rResult) >= 1 =>
        /\ IsSome(Override) =>
               \A h \in Hints : ExtractWithField(rItem, h, Override) = Resolved
        /\ (~IsSome(Override) /\ Hinted(rItem, rHint) # {}) =>
               Resolved.val \in Hinted(rItem, rHint)
        /\ (~IsSome(Override) /\ Hinted(rItem, rHint) = {}
            /\ IsSome(TypeDefault(rItem))) =>
               Resolved.val = TypeDefault(rItem)
        /\ (~IsSome(Override)
            /\ (Hinted(rItem, rHint) # {} \/ IsSome(TypeDefault(rItem)))) =>
               Resolved.val \in Hinted(rItem, rHint) \cup {TypeDefault(rItem)}

(* the sub-field a well-known name of the item's type stands for, None for *)
(* any other name                                                          *)
WellKnownField(item, l) ==
    CASE item.type = "Login" ->
            (CASE l = "password" -> Unwrap(item.login).password
               [] l = "username" -> Unwrap(item.login).username
               [] l = "totp" -> Unwrap(item.login).totp
               [] OTHER -> None)
      [] item.type = "Card" ->
            (CASE l = "number" -> Unwrap(item.card).number
               [] l \in {"code", "cvv", "cvc"} -> Unwrap(item.card).code
               [] l \in {"cardholder", "name"} -> Unwrap(item.card).cardholderName
               [] l = "brand" -> Unwrap(item.card).brand
               [] l \in {"expmonth", "exp_month"} -> Unwrap(item.card).expMonth
               [] l \in {"expyear", "exp_year"} -> Unwrap(item.card).expYear
               [] OTHER -> None)
      [] item.type = "Identity" ->
            (CASE l = "email" -> Unwrap(item.identity).email
               [] l = "username" -> Unwrap(item.identity).username
               [] l = "phone" -> Unwrap(item.identity).phone
               [] l \in {"firstname", "first_name"} -> Unwrap(item.identity).firstName
               [] l \in {"lastname", "last_name"} -> Unwrap(item.identity).lastName
               [] l = "company" -> Unwrap(item.identity).company
               [] OTHER -> None)
      [] item.type = "SshKey" ->
            (CASE l \in {"private_key", "privatekey", "private"} ->
                     Unwrap(item.sshKey).privateKey
               [] l \in {"public_key", "publickey", "public"} ->
                     Unwrap(item.sshKey).publicKey
               [] l \in {"fingerprint", "key_fingerprint"} ->
                     Unwrap(item.sshKey).keyFingerprint
               [] OTHER -> None)
      [] item.type = "SecureNote" -> None

(* some custom field's name equals or contains the name, in any case *)
NamesCustomField(item, name) ==
    /\ IsSome(item.fields)
    /\ \E k \in 1..Len(Unwrap(item.fields)) :
           /\ IsSome(Unwrap(item.fields)[k].name)
           /\ Contains(ToLower(Unwrap(Unwrap(item.fields)[k].name)), ToLower(name))

(* C6: the override is authoritative for every item type.  When an         *)
(* override names neither a populated well-known sub-field nor any custom  *)
(* field of the item, field resolution returns 'not found': no fallback to *)
(* hint inference, the type default, a custom field `value` or the notes.  *)
C6_OverrideAuthoritative ==
    (/\ Len(rResult) >= 1
     /\ IsSome(Override)
     /\ ~IsSome(WellKnownField(rItem, ToLower(Unwrap(Override))))
     /\ ~NamesCustomField(rItem, Unwrap(Override)))
        => Resolved = Ok(None)

-----------------------------------------------------------------------------
(* Properties of the calls of a behaviour of SpecFaults *)

(* the commands whose standard output the provider parses as JSON *)
ParsedCommands == {"bw status", "bw list items", "bw get item", "bws secret list"}

(* the fault makes its command fail: not spawned, non-zero exit, or output *)
(* that does not parse where it is parsed                                   *)
FailsAt(f) ==
    /\ f.cmd # ""
    /\ \/ ~f.out.found
       \/ ~f.out.success
       \/ f.cmd \in ParsedCommands /\ f.out.stdout = None

(* the error the transport makes of the failed command *)
ErrorOf(f) ==
    IF f.cmd \in {"bw edit item", "bw create item"} THEN SpawnWithStdin(f.out)
    ELSE With(IF f.cmd \in SecretsManagerCommands
              THEN execute_bws_command(f.out)
              ELSE execute_bw_command(f.out),
              LAMBDA r : IF r.ok THEN JsonErr ELSE r)

Ran(c, cmd) == \E k \in 1..Len(c.cmds) : c.cmds[k] = cmd

NoRetry(c) ==
    \A j, k \in 1..Len(c.cmds) : c.cmds[j] = c.cmds[k] => j = k

(* the call stopped at its failed command with that command's error *)
StoppedAt(c, cmd, error) ==
    /\ c.result = error
    /\ c.cmds[Len(c.cmds)] = cmd
    /\ NoRetry(c)

(* the creation of the call was refused with 'already exists': by the     *)
(* fault, or because the project holds the compound key                    *)
CreateRefused(c) ==
    /\ c.op = "set"
    /\ Ran(c, "bws secret create")
    /\ IF c.fault.cmd = "bws secret create"
       THEN ~c.fault.out.success /\ c.fault.out.found
            /\ execute_bws_command(c.fault.out).err
                   = "Bitwarden Secrets Manager CLI error: " \o c.fault.out.stderr
            /\ Contains(c.fault.out.stderr, "already exists")
       ELSE c.taken

(* a get whose search finds nothing succeeds with no value *)
EmptySearchIsNotAnError(c) ==
    (c.op = "get" /\ c.fresh /\ ~(FailsAt(c.fault) /\ Ran(c, c.fault.cmd)))
        => c.result = Ok(None)

IsPrefix(a, b) == Len(a) <= Len(b) /\ a = SubSeq(b, 1, Len(a))

CallFlows(c) ==
    IF IsPM
    THEN IF c.op = "get"
         THEN {<<"bw status", "bw list items">>}
         ELSE {<<"bw status", "bw list items", "bw get item", "bw edit item">>,
               <<"bw status", "bw list items", "bw create item">>}
    ELSE IF c.op = "get"
         THEN {<<"bws secret list">>}
         ELSE {<<"bws secret create", "bws secret list", "bws secret edit">>}

(* C12 as stated: every get or set, on either service and on every path,   *)
(* spawns at most two external processes, one after another.               *)
C12_ProcessBudgetAsStated ==
    \A i \in 1..Len(hist) : Len(hist[i].cmds) <= 2

(* C12: every call spawns its processes one after another, each command of *)
(* its flow at most once: at most two for a Password Manager get (status,  *)
(* search), four for a Password Manager set (status, list, then get item   *)
(* and edit, or create), one for a Secrets Manager get (list) and three    *)
(* for a Secrets Manager set (create, then list and edit).                 *)
C12_ProcessBudget ==
    \A i \in 1..Len(hist) :
        /\ \E flow \in CallFlows(hist[i]) : IsPrefix(hist[i].cmds, flow)
        /\ Len(hist[i].cmds) <=
               IF IsPM THEN (IF hist[i].op = "get" THEN 2 ELSE 4)
               ELSE (IF hist[i].op = "get" THEN 1 ELSE 3)

(* a Password Manager set that updated an existing item in four processes *)
C12_UpdateInFourProcesses ==
    \E i \in 1..Len(hist) :
        /\ hist[i].op = "set" /\ hist[i].result.ok
        /\ hist[i].cmds = <<"bw status", "bw list items", "bw get item", "bw edit item">>

-----------------------------------------------------------------------------
(* Properties of the behaviours of SpecRace *)

BothSetsSucceeded ==
    \A w \in Writers : writers[w].pc = "done" /\ writers[w].result = Some(Ok(None))

(* C13: when two concurrent set calls for the same project, key and        *)
(* profile with different values both succeed, a get made after both have  *)
(* returned yields the value of the call whose create or edit process      *)
(* completed last.                                                         *)
C13_LastWriterWins ==
    (readBack # None /\ BothSetsSucceeded)
        => Unwrap(readBack) = Ok(Some(WriterValue(writeLog[Len(writeLog)])))

-----------------------------------------------------------------------------
(* Properties of the calls of a behaviour of SpecEnv *)

(* the configuration with every setting the environment holds put in place *)
(* of the configured one                                                   *)
EnvOverConfig(cfg, e) ==
    [cfg EXCEPT
        !.default_item_type =
            IF IsSome(e.BITWARDEN_DEFAULT_TYPE)
            THEN OrElse(item_type_from_str(Unwrap(e.BITWARDEN_DEFAULT_TYPE)), @)
            ELSE @,
        !.default_field = OrElse(e.BITWARDEN_DEFAULT_FIELD, @),
        !.organization_id = OrElse(e.BITWARDEN_ORGANIZATION, @),
        !.collection_id = OrElse(e.BITWARDEN_COLLECTION, @),
        !.access_token = OrElse(e.BWS_ACCESS_TOKEN, @)]

(* the item type, target field, organization and collection of a created   *)
(* item are those of the environment where it holds them                   *)
CreatedUnderEnv(c) ==
    IsSome(c.submitted) =>
        Unwrap(c.submitted) =
            NewItemTemplate(EnvOverConfig(config, env), NoEnv, c.key, Unwrap(c.value))

(* the access token of the processes is that of the environment where it   *)
(* holds one                                                               *)
TokenUnderEnv(c) ==
    IsSome(c.token) => c.token = AccessToken(EnvOverConfig(config, env), NoEnv)

(* C14: for each of the five settings (item type, field, organization,     *)
(* collection, access token) that both the environment and the             *)
(* configuration hold, a call uses the value of the environment.           *)
C14_EnvironmentPrecedence ==
    \A i \in 1..Len(hist) : CreatedUnderEnv(hist[i]) /\ TokenUnderEnv(hist[i])

-----------------------------------------------------------------------------
(* Properties of the behaviours of SpecTransport *)

NonZeroExit == proc.out.found /\ ~proc.out.success

(* the error text the recognised substrings of stderr select, in their     *)
(* order, and the raw stderr when none is present                          *)
ClassifiedText(via, stderr) ==
    IF via = "execute_bws_command"
    THEN IF ContainsAny(stderr, {"Access token is required", "Unauthorized"})
         THEN BwsAuthMsg
         ELSE IF Contains(stderr, "Internal error: Failed to parse IdentityTokenResponse")
         THEN BwsRateLimitMsg
         ELSE IF ContainsAny(stderr, {"Resource not found", "Not found"})
         THEN BwsAccessDeniedMsg
         ELSE stderr
    ELSE IF Contains(stderr, "You are not logged in") THEN BwLoginMsg
         ELSE IF Contains(stderr, "Vault is locked") THEN BwLockedMsg
         ELSE stderr

(* C15: a non-zero exit of either tool always yields an error, whose text  *)
(* is chosen by the first recognised substring of stderr in the fixed      *)
(* order (Secrets Manager: authentication required, rate limited, access   *)
(* denied; Password Manager: not logged in, vault locked) and is the raw   *)
(* stderr unchanged when no recognised substring is present.               *)
C15_ErrorClassification ==
    (procResult # None /\ NonZeroExit)
        => Unwrap(procResult) = Err(ClassifiedText(proc.via, proc.out.stderr))


-----------------------------------------------------------------------------
(* The parser's result *)

Parsed == parseResult # None
ParsedOk == Parsed /\ Unwrap(parseResult).ok
ParsedConfig == Unwrap(parseResult).val
HasParam(key) == \E i \in 1..Len(url.query) : url.query[i][1] = key

(* C16: every configuration the parser returns keeps to its variant: a     *)
(* Password Manager configuration has project_id and access_token unset, a *)
(* Secrets Manager configuration has organization_id, collection_id,       *)
(* server and folder_prefix unset, whatever the userinfo, host and query   *)
C16_VariantExclusivity ==
    ParsedOk =>
        /\ ParsedConfig.service = "PasswordManager" =>
               /\ ParsedConfig.project_id = None
               /\ ParsedConfig.access_token = None
        /\ ParsedConfig.service = "SecretsManager" =>
               /\ ParsedConfig.organization_id = None
               /\ ParsedConfig.collection_id = None
               /\ ParsedConfig.server = None
               /\ ParsedConfig.folder_prefix = None

(* a bws URL with userinfo, a host and the other variant's parameters *)
C16_ForeignParametersParsed ==
    /\ ParsedOk
    /\ url.scheme = "bws"
    /\ url.username = "myorg"
    /\ url.host = Some("collection-456")
    /\ HasParam("org")
    /\ HasParam("server")
    /\ ParsedConfig.project_id = Some("collection-456")

(* the value of the last query pair whose key is one of keys *)
LastParam(keys) ==
    IF \E i \in 1..Len(url.query) : url.query[i][1] \in keys
    THEN Some(url.query[CHOOSE i \in 1..Len(url.query) :
                  /\ url.query[i][1] \in keys
                  /\ \A j \in (i + 1)..Len(url.query) : url.query[j][1] \notin keys][2])
    ELSE None

(* the host when there is one other than localhost, and the userinfo in *)
(* front of such a host                                                 *)
HostId == IF IsSome(url.host) /\ Unwrap(url.host) # "localhost" THEN url.host ELSE None
UserId == IF IsSome(HostId) /\ url.username # "" THEN Some(url.username) ELSE None

(* C17: for bitwarden:// the collection id is the last `collection`        *)
(* parameter, else the non-localhost host, else unset, and the             *)
(* organization id is the last `org`/`organization` parameter, else the    *)
(* userinfo in front of a non-localhost host, else unset; for bws:// the   *)
(* project id is the last `project` parameter, else the non-localhost      *)
(* host, else unset; server, folder, field and token are the last          *)
(* occurrence of their parameter                                           *)
C17_AuthorityAndQuery ==
    ParsedOk =>
        /\ ParsedConfig.default_field = LastParam({"field"})
        /\ url.scheme = "bitwarden" =>
               /\ ParsedConfig.organization_id =
                      OrElse(LastParam({"org", "organization"}), UserId)
               /\ ParsedConfig.collection_id = OrElse(LastParam({"collection"}), HostId)
               /\ ParsedConfig.server = LastParam({"server"})
               /\ ParsedConfig.folder_prefix = LastParam({"folder"})
        /\ url.scheme = "bws" =>
               /\ ParsedConfig.project_id = OrElse(LastParam({"project"}), HostId)
               /\ ParsedConfig.access_token = LastParam({"token"})

(* org@collection in the authority and `collection` given twice: the *)
(* second value replaces the host, the userinfo stays                *)
C17_RepeatedCollectionOverHost ==
    /\ ParsedOk
    /\ url.scheme = "bitwarden"
    /\ url.username = "myorg"
    /\ url.host = Some("collection-456")
    /\ url.query = << <<"collection", "c1">>, <<"collection", "c2">> >>
    /\ ParsedConfig.collection_id = Some("c2")
    /\ ParsedConfig.organization_id = Some("myorg")

(* the item type a `type` value names, compared without regard to case *)
NamedType(value) ==
    CASE EqIgnoreAsciiCase(value, "login") -> Some("Login")
      [] \E n \in {"securenote", "note", "secure_note"} : EqIgnoreAsciiCase(value, n) ->
             Some("SecureNote")
      [] EqIgnoreAsciiCase(value, "card") -> Some("Card")
      [] EqIgnoreAsciiCase(value, "identity") -> Some("Identity")
      [] \E n \in {"sshkey", "ssh_key", "ssh"} : EqIgnoreAsciiCase(value, n) ->
             Some("SshKey")
      [] OTHER -> None

ValidTypeAt(i) == url.query[i][1] = "type" /\ IsSome(NamedType(url.query[i][2]))

(* C18: a URL of a supported scheme parses whatever its `type` values are,  *)
(* and the default item type is the one named (in any letter case) by the   *)
(* last `type` parameter whose value is in the enumeration, Login when      *)
(* there is none: a value outside the enumeration changes nothing           *)
C18_LenientTypeParsing ==
    (Parsed /\ url.scheme \in {"bitwarden", "bws"}) =>
        /\ Unwrap(parseResult).ok
        /\ ParsedConfig.default_item_type =
               IF \E i \in 1..Len(url.query) : ValidTypeAt(i)
               THEN NamedType(url.query[CHOOSE i \in 1..Len(url.query) :
                        /\ ValidTypeAt(i)
                        /\ \A j \in (i + 1)..Len(url.query) : ~ValidTypeAt(j)][2])
               ELSE Some("Login")

(* type=Card followed by type=bogus: parsing succeeds and Card stays *)
C18_UnknownTypeAfterCard ==
    /\ ParsedOk
    /\ url.query = << <<"type", "Card">>, <<"type", "bogus">> >>
    /\ ParsedConfig.default_item_type = Some("Card")

(* C19: the parser returns Ok exactly for the schemes bitwarden and bws,    *)
(* whatever the authority and the query; for any other scheme it returns    *)
(* ProviderOperationFailed with a message naming bitwarden:// and bws://;   *)
(* and no CLI process has run and no backend has changed once it returned   *)
C19_ParserTotality ==
    Parsed =>
        /\ Unwrap(parseResult).ok <=> url.scheme \in {"bitwarden", "bws"}
        /\ ~Unwrap(parseResult).ok =>
               /\ Unwrap(parseResult).kind = "ProviderOperationFailed"
               /\ Contains(Unwrap(parseResult).err, "'bitwarden://'")
               /\ Contains(Unwrap(parseResult).err, "'bws://'")
        /\ hist = <<>> /\ vault = <<>> /\ secrets = <<>> /\ procResult = None

(* both outcomes in one query: an unsupported scheme is refused, and the *)
(* same unknown key is what a supported scheme would have ignored        *)
C19_UnsupportedSchemeRefused ==
    /\ Parsed
    /\ url.scheme = "bw"
    /\ url.host = Some("collection-123")
    /\ HasParam("region")
    /\ ~Unwrap(parseResult).ok
    /\ Contains(Unwrap(parseResult).err, "Invalid scheme 'bw'")

-----------------------------------------------------------------------------
(* The registry's result *)

LookedUp == resolved # None
ResolvedAs(n) == Unwrap(resolved).ok /\ Unwrap(resolved).val.name = n

(* C20: a provider string made of a name alone, the name and a colon, or   *)
(* the name in front of :// and an authority resolves by that name as its  *)
(* scheme: bitwarden and bws give the provider named "bitwarden", every    *)
(* other registered scheme gives its own provider, a scheme that is not    *)
(* registered fails with ProviderNotFound carrying exactly the scheme, and *)
(* 1password fails with a message saying to use 'onepassword' instead      *)
C20_RegistryLookup ==
    LookedUp =>
        \A n \in ProviderNames, f \in ProviderForms :
            providerSpec = n \o f =>
                /\ n \in {"bitwarden", "bws"} => ResolvedAs("bitwarden")
                /\ n \in {"env", "keyring", "dotenv", "onepassword", "lastpass"} =>
                       ResolvedAs(n)
                /\ n = "onepassword+token" => ResolvedAs("onepassword")
                /\ n \in {"unknown", "bw"} =>
                       Unwrap(resolved) =
                           [ok |-> FALSE, val |-> <<>>, kind |-> "ProviderNotFound", err |-> n]
                /\ n = "1password" =>
                       /\ ~Unwrap(resolved).ok
                       /\ Contains(Unwrap(resolved).err, "Use 'onepassword' instead")

(* `bws:` resolved to the provider named bitwarden, configured for the *)
(* Secrets Manager                                                     *)
C20_BwsColonResolved ==
    /\ LookedUp
    /\ providerSpec = "bws:"
    /\ ResolvedAs("bitwarden")
    /\ Unwrap(Unwrap(resolved).val.config).service = "SecretsManager"

-----------------------------------------------------------------------------
(* The set call a step makes, and the item the three strategies select in  *)
(* the vault the step starts from                                          *)

StepCall == hist'[Len(hist')]
IsSetStep == Len(hist') = Len(hist) + 1 /\ StepCall.op = "set"

LegacyName(c) ==
    IF config.folder_prefix = None
    THEN "secretspec/" \o c.project \o "/" \o c.profile \o "/" \o c.key
    ELSE "custom/" \o c.project \o "/" \o c.key

Selected(c) ==
    LET byLegacy == {k \in 1..Len(vault) : vault[k].name = LegacyName(c)}
        byKey == {k \in 1..Len(vault) : vault[k].name = c.key}
        byPart == {k \in 1..Len(vault) : Contains(ToLower(vault[k].name), ToLower(c.key))}
    IN  IF byLegacy # {} THEN Least(byLegacy)
        ELSE IF byKey # {} THEN Least(byKey)
        ELSE Least(byPart)

Count(cmds, cmd) == Cardinality({k \in 1..Len(cmds) : cmds[k] = cmd})

(* C21: a set on the Password Manager edits the first listed item named by *)
(* the legacy compound name, else the first named by the key, else the     *)
(* first whose name contains the key in any letter case, and no other      *)
(* item; it creates an item only when no listed item passes any of the     *)
(* three tests; a successful set runs exactly one create or exactly one    *)
(* edit, never both                                                        *)
C21_ItemSelection ==
    [][IsSetStep =>
          /\ Count(StepCall.cmds, "bw create item") > 0 => Selected(StepCall) = 0
          /\ StepCall.result.ok =>
                IF Selected(StepCall) # 0
                THEN /\ Count(StepCall.cmds, "bw edit item") = 1
                     /\ Count(StepCall.cmds, "bw create item") = 0
                     /\ Len(vault') = Len(vault)
                     /\ vault'[Selected(StepCall)] # vault[Selected(StepCall)]
                     /\ \A k \in 1..Len(vault) :
                            k # Selected(StepCall) => vault'[k] = vault[k]
                ELSE /\ Count(StepCall.cmds, "bw create item") = 1
                     /\ Count(StepCall.cmds, "bw edit item") = 0
                     /\ Len(vault') = Len(vault) + 1
                     /\ SubSeq(vault', 1, Len(vault)) = vault
                     /\ vault'[Len(vault')].name = StepCall.key]_vars

(* the third listed item carries the legacy name and was the one edited, *)
(* though items named by the key and containing the key are listed first *)
C21_LegacyNameEditedBehindOthers ==
    /\ Len(hist) = 1
    /\ hist[1].op = "set" /\ hist[1].key = "API_KEY" /\ hist[1].result.ok
    /\ Len(vault) = 3
    /\ vault[1].name = "my_api_key_v2"
    /\ vault[2].name = "API_KEY"
    /\ vault[3].name = "secretspec/proj/dev/API_KEY"
    /\ vault[1].login = vault[2].login
    /\ Unwrap(vault[3].login).password = hist[1].value
    /\ Unwrap(vault[2].login).password = Some("old")

-----------------------------------------------------------------------------
(* A Secrets Manager call seen as a step: the secrets listed for the       *)
(* configured project in the store the step starts from                    *)

CompoundKey(c) == c.project \o "_" \o c.key

ListedSecrets ==
    IF config.project_id = None THEN secrets
    ELSE SelectSeq(secrets, LAMBDA x : x.project_id = Unwrap(config.project_id))

MatchingListed(c) ==
    {k \in 1..Len(ListedSecrets) :
        ListedSecrets[k].key = CompoundKey(c) \/ ListedSecrets[k].key = c.key}

(* the process of the call named cmd fails through the call's fault *)
FaultOn(c, cmd) == c.fault.cmd = cmd /\ FailsAt(c.fault)

(* the creation is answered with 'already exists': by the fault, or by the *)
(* backend since the project holds the compound key                        *)
AlreadyExists(c) ==
    IF c.fault.cmd = "bws secret create"
    THEN c.fault.out = Failed("Error: already exists")
    ELSE \E k \in 1..Len(ListedSecrets) : ListedSecrets[k].key = CompoundKey(c)

(* what follows a creation attempt: nothing more after a creation that     *)
(* succeeded or failed otherwise than with 'already exists'; after         *)
(* 'already exists' a list, then an edit of the first listed match and of  *)
(* it alone, or an error when the list holds no match                      *)
AfterCreation(c) ==
    /\ IsPrefix(c.cmds, <<"bws secret create", "bws secret list", "bws secret edit">>)
    /\ Ran(c, "bws secret list") <=> AlreadyExists(c)
    /\ (~AlreadyExists(c) /\ c.result.ok) =>
           /\ Len(secrets') = Len(secrets) + 1
           /\ SubSeq(secrets', 1, Len(secrets)) = secrets
           /\ secrets'[Len(secrets')].key = CompoundKey(c)
           /\ Some(secrets'[Len(secrets')].value) = c.value
    /\ (AlreadyExists(c) /\ ~FaultOn(c, "bws secret list")) =>
           IF MatchingListed(c) = {}
           THEN ~c.result.ok /\ ~Ran(c, "bws secret edit") /\ secrets' = secrets
           ELSE /\ Ran(c, "bws secret edit")
                /\ c.result.ok <=> ~FaultOn(c, "bws secret edit")
                /\ Len(secrets') = Len(secrets)
                /\ \A k \in 1..Len(secrets) :
                       IF c.result.ok
                          /\ secrets[k].id = ListedSecrets[Least(MatchingListed(c))].id
                       THEN secrets'[k] =
                                [secrets[k] EXCEPT !.key = CompoundKey(c),
                                                   !.value = Unwrap(c.value)]
                       ELSE secrets'[k] = secrets[k]
    /\ ~c.result.ok => secrets' = secrets

IsGetStep == Len(hist') = Len(hist) + 1 /\ StepCall.op = "get"

(* C23: a get on the Secrets Manager runs the list alone and changes no    *)
(* secret; when the list succeeds it returns the value of the first listed *)
(* secret whose key is the compound key or the bare key, and it returns a  *)
(* successful empty result exactly when the list succeeds and holds no     *)
(* such secret                                                             *)
C23_KvGetLookup ==
    [][(IsGetStep /\ IsSM) =>
          /\ StepCall.cmds = <<"bws secret list">>
          /\ secrets' = secrets
          /\ (~FaultOn(StepCall, "bws secret list") /\ MatchingListed(StepCall) # {}) =>
                 StepCall.result =
                     Ok(Some(ListedSecrets[Least(MatchingListed(StepCall))].value))
          /\ StepCall.result = Ok(None) <=>
                 (~FaultOn(StepCall, "bws secret list") /\ MatchingListed(StepCall) = {})]_vars

(* the bare key of another project's secret is listed first when no        *)
(* project id is configured, and its value is what get returned            *)
C23_FirstListedOfEitherForm ==
    /\ Len(hist) = 1
    /\ hist[1].op = "get"
    /\ hist[1].fault = NoFault
    /\ config.service = "SecretsManager" /\ config.project_id = None
    /\ secrets = <<StoredSecret(1, "API_KEY", "prj-2"),
                   StoredSecret(2, "proj_API_KEY", "prj-1")>>
    /\ hist[1].result = Ok(Some("s1"))

-----------------------------------------------------------------------------
(* An update in place seen as a step of SpecUpdate: the item before and    *)
(* after, the field the update writes to                                   *)

IsUpdateStep ==
    /\ IsSetStep
    /\ StepCall.result.ok
    /\ StepCall.cmds = <<"bw status", "bw list items", "bw get item", "bw edit item">>

Before == vault[1]
After == vault'[1]

FieldsOf(item) == IF item.fields = None THEN <<>> ELSE Unwrap(item.fields)

UpdateTarget == TargetField(config, env, Before.type, StepCall.key)

(* the names update writes to a typed sub-field of the item's type *)
WellKnownTarget(t, name) ==
    CASE t = "Login" -> ToLower(name) \in {"password", "username", "totp"}
      [] t = "SecureNote" -> name = "notes"
      [] t = "Card" ->
             ToLower(name) \in {"number", "code", "cvv", "cvc", "cardholder", "name",
                                "brand", "expmonth", "exp_month", "expyear", "exp_year"}
      [] t = "Identity" ->
             ToLower(name) \in {"email", "username", "phone", "firstname", "first_name",
                                "lastname", "last_name", "company"}
      [] t = "SshKey" ->
             ToLower(name) \in {"private_key", "privatekey", "private", "public_key",
                                "publickey", "public", "fingerprint", "key_fingerprint"}

NamedAt(fields, name) == {k \in 1..Len(fields) : fields[k].name = Some(name)}

HiddenWords == {"password", "secret", "token", "key", "value", "code", "cvv", "cvc"}

KindFor(name) ==
    IF \E w \in HiddenWords : Contains(ToLower(name), w) THEN FieldHidden ELSE FieldText

(* C24: when the field an update writes to is not a well-known name of the *)
(* item's type, the first custom field of that name gets the value with    *)
(* the list's length and order kept, or, when there is none, one field of  *)
(* that name is appended, hidden if the name holds one of the listed words *)
(* in any letter case and text otherwise; every other custom field stays   *)
C24_CustomFieldUpsert ==
    [][(IsUpdateStep /\ ~WellKnownTarget(Before.type, UpdateTarget)) =>
          IF NamedAt(FieldsOf(Before), UpdateTarget) # {}
          THEN /\ Len(FieldsOf(After)) = Len(FieldsOf(Before))
               /\ \A k \in 1..Len(FieldsOf(Before)) :
                      FieldsOf(After)[k] =
                          IF k = Least(NamedAt(FieldsOf(Before), UpdateTarget))
                          THEN [FieldsOf(Before)[k] EXCEPT !.value = StepCall.value]
                          ELSE FieldsOf(Before)[k]
          ELSE /\ Len(FieldsOf(After)) = Len(FieldsOf(Before)) + 1
               /\ SubSeq(FieldsOf(After), 1, Len(FieldsOf(Before))) = FieldsOf(Before)
               /\ FieldsOf(After)[Len(FieldsOf(After))] =
                      [name |-> Some(UpdateTarget), value |-> StepCall.value,
                       type |-> KindFor(UpdateTarget)]]_vars

(* the first of two fields named api_key was overwritten in place *)
C24_FirstOfTwoOverwritten ==
    /\ Len(hist) = 1
    /\ hist[1].op = "set" /\ hist[1].result.ok /\ hist[1].value = Some("v1")
    /\ env.BITWARDEN_DEFAULT_FIELD = Some("api_key")
    /\ vault[1].type = "Card"
    /\ vault[1].fields =
           Some(<<Field(Some("api_key"), Some("v1")),
                  Field(None, Some("field:unnamed")),
                  Field(Some("api_key"), Some("field:second"))>>)

-----------------------------------------------------------------------------
(* C25: custom-field lookup order.  The lookup returns the value of the    *)
(* first field, in the order of the list, whose name equals the requested  *)
(* name ignoring case; only when no field's name equals it does it return  *)
(* the value of the first field whose name contains the requested name     *)
(* ignoring case; when no field matches either way, or the item has no     *)
(* field list, it returns "not found".  A field without a name matches     *)
(* nothing; the value of a matching field that has none reads as "not      *)
(* found".                                                                 *)

LookedIn == IF IsSome(rItem.fields) THEN Unwrap(rItem.fields) ELSE <<>>

EqualNamed ==
    {i \in 1..Len(LookedIn) :
        /\ IsSome(LookedIn[i].name)
        /\ ToLower(Unwrap(LookedIn[i].name)) = ToLower(rHint)}

ContainingNamed ==
    {i \in 1..Len(LookedIn) :
        /\ IsSome(LookedIn[i].name)
        /\ Contains(ToLower(Unwrap(LookedIn[i].name)), ToLower(rHint))}

IsFirstOf(i, S) == i \in S /\ \A j \in S : i <= j

C25_LookupOrder ==
    (rpc = "lookup" /\ rResult # <<>>) =>
        /\ rResult[1].ok
        /\ \A i \in EqualNamed :
               IsFirstOf(i, EqualNamed) => rResult[1].val = LookedIn[i].value
        /\ EqualNamed = {} =>
               \A i \in ContainingNamed :
                   IsFirstOf(i, ContainingNamed) => rResult[1].val = LookedIn[i].value
        /\ (EqualNamed = {} /\ ContainingNamed = {}) => rResult[1].val = None

(* an exact match in third place is returned past a substring match in     *)
(* first place and a field without a name in second place                  *)
C25_ExactBehindSubstring ==
    /\ rpc = "lookup" /\ rResult # <<>>
    /\ rHint = "Api_Key"
    /\ Len(LookedIn) = 3
    /\ LookedIn[1].name = Some("my_api_key_v2") /\ IsSome(LookedIn[1].value)
    /\ LookedIn[2].name = None
    /\ LookedIn[3].name = Some("API_KEY")
    /\ rResult[1] = Ok(Some("field:3"))

-----------------------------------------------------------------------------
(* C26: update frame.  An update in place leaves the document it fetched   *)
(* as it was but for one location: one typed sub-field of the item's type  *)
(* (the note text for a secure note), or one custom field overwritten or   *)
(* appended.  The id, type tag, name, the typed objects of the other       *)
(* types, every other typed sub-field, every other custom field and the    *)
(* organization and collection identifiers are those of the item before.   *)

TypedObject(item) ==
    CASE item.type = "Login" -> Unwrap(item.login)
      [] item.type = "Card" -> Unwrap(item.card)
      [] item.type = "Identity" -> Unwrap(item.identity)
      [] item.type = "SshKey" -> Unwrap(item.sshKey)
      [] item.type = "SecureNote" -> [notes |-> item.notes]

ChangedTyped ==
    {f \in DOMAIN TypedObject(Before) : TypedObject(After)[f] # TypedObject(Before)[f]}

ChangedCustom ==
    {k \in 1..Len(FieldsOf(After)) :
        k > Len(FieldsOf(Before)) \/ FieldsOf(After)[k] # FieldsOf(Before)[k]}

OutsideKept ==
    /\ After.id = Before.id
    /\ After.type = Before.type
    /\ After.name = Before.name
    /\ After.organizationId = Before.organizationId
    /\ After.collectionIds = Before.collectionIds
    /\ After.secureNote = Before.secureNote
    /\ Before.type # "SecureNote" => After.notes = Before.notes
    /\ Before.type # "Login" => After.login = Before.login
    /\ Before.type # "Card" => After.card = Before.card
    /\ Before.type # "Identity" => After.identity = Before.identity
    /\ Before.type # "SshKey" => After.sshKey = Before.sshKey
    /\ DOMAIN TypedObject(After) = DOMAIN TypedObject(Before)
    /\ Len(FieldsOf(After)) >= Len(FieldsOf(Before))
    /\ FieldsOf(After) = FieldsOf(Before) => After.fields = Before.fields

C26_UpdateFrame ==
    [][IsUpdateStep =>
          /\ OutsideKept
          /\ Cardinality(ChangedTyped) + Cardinality(ChangedCustom) <= 1
          /\ hist = <<>> => Cardinality(ChangedTyped) + Cardinality(ChangedCustom) = 1
          /\ \A f \in ChangedTyped : TypedObject(After)[f] = StepCall.value
          /\ \A k \in ChangedCustom : FieldsOf(After)[k].value = StepCall.value]_vars

(* a Login item with every sub-field, two custom fields and its            *)
(* organization and collection after a set that wrote the password         *)
C26_PasswordAloneRewritten ==
    /\ Len(hist) = 1
    /\ hist[1].op = "set" /\ hist[1].result.ok /\ hist[1].value = Some("v2")
    /\ hist[1].cmds = <<"bw status", "bw list items", "bw get item", "bw edit item">>
    /\ vault =
           <<[FullItem("Login", UpdateKey,
                       Some(<<Field(Some("region"), Some("field:region")),
                              Field(Some("api_key"), Some("field:api_key"))>>))
                 EXCEPT !.login = Some([FullLogin EXCEPT !.password = Some("v2")])]>>

-----------------------------------------------------------------------------
(* C27: set/get field agreement on existing items.  With no field          *)
(* override, for every item type and every key, when an item named exactly *)
(* the key exists with all typed sub-fields of its type populated, a       *)
(* successful set of v under that key followed by a get of the key         *)
(* returns v.                                                              *)

UpdatedThenRead ==
    /\ Len(hist) = 2
    /\ hist[1].op = "set" /\ hist[1].result.ok /\ hist[1].taken
    /\ hist[2].op = "get"
    /\ SameSecret(hist[1], hist[2])
    /\ hist[1].key = vault[1].name

C27_SetGetFieldAgreement ==
    UpdatedThenRead => hist[2].result = Ok(hist[1].value)

-----------------------------------------------------------------------------
(* C28: create/update placement agreement.  For a fixed item type, field   *)
(* override and key, the location a creation writes the value to (a typed  *)
(* sub-field, or a custom field of some name) is the location the next set *)
(* of the same key writes to when it updates the created item, so that     *)
(* after the second set its value is held exactly where the creation       *)
(* document held the first.                                                *)

HeldInObject(obj, payload, v) ==
    IF IsSome(payload)
    THEN {[obj |-> obj, name |-> f] :
             f \in {g \in DOMAIN Unwrap(payload) : Unwrap(payload)[g] = v}}
    ELSE {}

HeldInFields(item, v) ==
    {[obj |-> "fields", name |-> Unwrap(FieldsOf(item)[k].name)] :
        k \in {j \in 1..Len(FieldsOf(item)) :
                  IsSome(FieldsOf(item)[j].name) /\ FieldsOf(item)[j].value = v}}

(* the locations of a document that hold v *)
Holding(item, v) ==
    HeldInObject("login", item.login, v)
        \cup HeldInObject("card", item.card, v)
        \cup HeldInObject("identity", item.identity, v)
        \cup HeldInObject("sshKey", item.sshKey, v)
        \cup HeldInFields(item, v)
        \cup (IF item.notes = v THEN {[obj |-> "item", name |-> "notes"]} ELSE {})

CreatedThenUpdated ==
    /\ Len(hist) = 2
    /\ SucceededSet(hist[1]) /\ IsSome(hist[1].submitted)
    /\ SucceededSet(hist[2]) /\ hist[2].submitted = None
    /\ SameSecret(hist[1], hist[2])
    /\ vault[Len(vault)].name = Unwrap(hist[1].submitted).name

C28_PlacementAgreement ==
    CreatedThenUpdated =>
        Holding(vault[Len(vault)], hist[2].value)
            = Holding(Unwrap(hist[1].submitted), hist[1].value)

-----------------------------------------------------------------------------
(* C29: custom-field name uniqueness under set.  After updates in place    *)
(* that write custom-field names differing only in letter case, the fields *)
(* the updates wrote hold at most one field of a name ignoring case, and   *)
(* looking up the name written last returns the value written last.        *)

WrittenValues == {Some(v) : v \in Values}

(* the custom fields of the item that hold a value some set wrote *)
WrittenFields ==
    {k \in 1..Len(FieldsOf(vault[1])) :
        /\ IsSome(FieldsOf(vault[1])[k].name)
        /\ FieldsOf(vault[1])[k].value \in WrittenValues}

WrittenName(k) == Unwrap(FieldsOf(vault[1])[k].name)

TwoUpdates ==
    /\ Len(hist) = 2
    /\ \A i \in 1..2 :
           /\ SucceededSet(hist[i])
           /\ hist[i].cmds = <<"bw status", "bw list items", "bw get item", "bw edit item">>
    /\ hist[1].value # hist[2].value

(* no field the item had before the updates shares a name, ignoring case,  *)
(* with a field the updates wrote                                          *)
NoNamesakeBefore ==
    \A j \in 1..Len(FieldsOf(vault[1])), k \in WrittenFields :
        (/\ IsSome(FieldsOf(vault[1])[j].name)
         /\ EqIgnoreAsciiCase(WrittenName(j), WrittenName(k))) => j \in WrittenFields

C29_CustomFieldNameUnique ==
    (TwoUpdates /\ NoNamesakeBefore) =>
        /\ \A j, k \in WrittenFields :
               EqIgnoreAsciiCase(WrittenName(j), WrittenName(k)) => j = k
        /\ \A k \in WrittenFields :
               FieldsOf(vault[1])[k].value = hist[2].value
                   => extract_from_custom_fields(vault[1], WrittenName(k))
                          = Ok(hist[2].value)

-----------------------------------------------------------------------------
(* C30: no duplicate creation under concurrency.  When two set calls for   *)
(* the same key run at the same time on the Password Manager, from an      *)
(* unlocked vault with no item matching the key, then in every             *)
(* interleaving, once both calls have returned successfully, the vault     *)
(* holds exactly one item named after the key.                             *)

(* items are never removed: the vault began without the item named after   *)
(* the key exactly when it holds none with that item's id                  *)
StartedWithoutItem == \A k \in 1..Len(vault) : vault[k].id # RaceItem.id

NamedRaceKey == {k \in 1..Len(vault) : vault[k].name = RaceKey}

C30_NoDuplicateCreation ==
    (IsPM /\ StartedWithoutItem /\ BothSetsSucceeded)
        => Cardinality(NamedRaceKey) = 1

====
